---- MODULE Spec2Model ----
(***************************************************************************)
(* zpoline-rs: system-call interception by binary rewriting.               *)
(*                                                                         *)
(* The module holds one state machine per part of the program:             *)
(*   Spec         the hook runtime (zpoline_hook_api/src/lib.rs):          *)
(*                hook_entry, the reentrancy flag, the hook slot;          *)
(*   SpecRewrite  Rewriter::rewrite_region on one region under any         *)
(*                configuration (zpoline_rewriter/src/rewriter.rs);        *)
(*   SpecBoot     rewrite_syscalls over a process map with the            *)
(*                configuration of build_rewrite_config                    *)
(*                (zpoline_loader/src/init.rs);                            *)
(*   SpecStub     the trampoline at address 0 and a thread that executes   *)
(*                a rewritten site through it, instruction by instruction  *)
(*                (zpoline_loader/src/trampoline.rs); SpecStubFair adds    *)
(*                that the processor keeps executing;                      *)
(*   SpecInit     zpoline_init, the load-time initializer, invoked by       *)
(*                several callers: the one-shot guard, setup_trampoline,    *)
(*                rewrite_syscalls, the report (zpoline_loader/src/lib.rs); *)
(*   SpecMaps     parse_maps_file on a table of map lines                   *)
(*                (zpoline_rewriter/src/maps.rs);                           *)
(*   SpecDispatch trait_based_hook on a SyscallHooks implementation with     *)
(*                the default methods                                       *)
(*                (zpoline_hook_api/src/syscall_hooks.rs);                  *)
(*   SpecInitFair SpecInit with an initializer that keeps running;         *)
(*   SpecTrait    trait_based_hook under two threads and the lock on       *)
(*                HOOK_TRAIT_OBJECT; SpecTraitFair adds fair threads;      *)
(*   SpecInitHookLibrary  SpecInit with the hook libraries of              *)
(*                zpoline_loader/src/dlmopen.rs in the environment;        *)
(*   SpecScan     rewrite_region on pages that end in undecodable bytes    *)
(*                or inside an instruction.                                *)
(* Each specification starts the other parts in a fixed idle state and     *)
(* leaves them unchanged.                                                  *)
(***************************************************************************)
EXTENDS Integers, Sequences, FiniteSets, TLC

VARIABLES
    \* ---- hook runtime (zpoline_hook_api/src/lib.rs)
    HOOK_FUNCTION,          \* the global atomic hook slot
    IN_HOOK,                \* thread-local reentrancy flag, one per thread
    HOOK_ENTRY_CALL_COUNT,  \* diagnostic counter
    stack,                  \* per thread: the call stack of hook_entry / hook frames
    calls,                  \* per thread: syscalls the application issued so far
    hookCalls,              \* per thread: invocations of the user hook so far
    HOOK_TRAIT_OBJECT,      \* the mutex around the registered SyscallHooks object
    \* ---- rewriter (zpoline_rewriter/src/rewriter.rs, zpoline_loader/src/init.rs)
    regions,                \* the parsed process map: a sequence of MemoryRegion
    mem,                    \* the bytes of each region
    prot,                   \* the page protection of each region
    config,                 \* Rewriter.config
    stats,                  \* Rewriter.stats
    last,                   \* the last rewrite_region call: its region, sites, result, effects
    layout,                 \* where raw_syscall and raw_syscall_impl's syscall lie
    boot,                   \* rewrite_syscalls: its position in the region loop
    \* ---- zero-page trampoline (zpoline_loader/src/trampoline.rs)
    tramp,                  \* the bytes mapped at virtual address 0
    cpu,                    \* the registers of the thread that runs the call
    smem,                   \* the thread's stack memory, by address
    entry,                  \* registers and stack when control entered the trampoline
    hook,                   \* what hook_entry was given and what it left
    phase,                  \* where the thread is
    \* ---- load-time initializer (zpoline_loader/src/lib.rs)
    INIT_ONCE,              \* the state of the Once
    invocation,             \* per invocation of zpoline_init: where it is
    stderr,                 \* the lines zpoline_init has written to stderr
    exit_status,            \* whether std::process::exit was called, and its code
    hook_library,           \* the hook library the environment designates
    \* ---- process map parser (zpoline_rewriter/src/maps.rs)
    maps,                   \* parse_maps_file: the table, the position in it, the result
    \* ---- trait dispatch (zpoline_hook_api/src/syscall_hooks.rs)
    disp                    \* trait_based_hook: the record it was given, the raw
                            \* syscalls it issued, the value it returned

hookVars == <<HOOK_FUNCTION, IN_HOOK, HOOK_ENTRY_CALL_COUNT, stack, calls, hookCalls,
             HOOK_TRAIT_OBJECT>>
rwVars == <<regions, mem, prot, config, stats, last, layout, boot>>

stubVars == <<tramp, cpu, smem, entry, hook, phase>>

initVars == <<INIT_ONCE, invocation, stderr, exit_status, hook_library>>

mapsVars == <<maps>>

dispVars == <<disp>>

vars == <<hookVars, rwVars, stubVars, initVars, mapsVars, dispVars>>

----------------------------------------------------------------------------
(* Bounds of the model *)

\* syscalls each application thread issues
MaxCalls == 2
\* deepest call stack explored (hook_entry and hook frames of one thread)
MaxStack == 5
\* bytes of a page (page_size::get()), scaled down so that a page's content can
\* be enumerated
PageSize == 10
\* instructions a region of the rewriter's specification holds before the padding
MaxInstrs == 2
\* rewrite_region calls made on one Rewriter
MaxRewrites == 2
\* instructions a text region of the bootstrap's process map holds
MaxBootInstrs == 1
\* bytes of the trampoline's stub area the model keeps
StubRoom == 64
\* 8-byte stack slots below the calling thread's stack pointer
StackDepth == 12
\* invocations of zpoline_init in one process
MaxInvocations == 2
\* lines of a process map table
MaxLines == 2
\* undecodable bytes at the end of a scanned buffer
MaxGarbage == 2
\* bits of usize and u64, scaled down so that the overflow of a number's
\* digits is within reach
UsizeBits == 16

----------------------------------------------------------------------------
(* Hook runtime: zpoline_hook_api/src/lib.rs *)

Threads == {"t1", "t2"}

\* SyscallRegs::new
SyscallRegs(rax, rdi, rsi, rdx, r10, r8, r9) ==
    [rax |-> rax, rdi |-> rdi, rsi |-> rsi, rdx |-> rdx, r10 |-> r10, r8 |-> r8, r9 |-> r9]

\* records of the syscalls the application issues (getpid-like and read-like),
\* all fields distinct so that a swapped argument shows
AppRecords == { SyscallRegs(39, 31, 32, 33, 34, 35, 36),
                SyscallRegs(0, 3, 41, 42, 43, 44, 45) }

\* the write(2, buf, len) that eprintln! issues from inside trace_hook
WriteRegs == SyscallRegs(1, 2, 21, 22, 23, 24, 25)

\* what the kernel may answer to a syscall (a negative value is -errno)
KernelResults == {-9, 7}

NoHook == "none"
\* the hooks of the repository: default_hook (lib.rs), trace_hook
\* (zpoline_samples/src/main.rs), test_hook (lib.rs tests)
HookFns == {"default_hook", "trace_hook", "test_hook"}

\* the registers loaded at the `syscall` instruction of raw_syscall_impl
raw_syscall_impl(nr, arg1, arg2, arg3, arg4, arg5, arg6) ==
    [rax |-> nr, rdi |-> arg1, rsi |-> arg2, rdx |-> arg3,
     r10 |-> arg4, r8 |-> arg5, r9 |-> arg6]

\* a raw_syscall that passes the fourth argument from the wrong field
raw_syscall_swapped(regs) ==
    raw_syscall_impl(regs.rax, regs.rdi, regs.rsi, regs.r10, regs.rdx, regs.r8, regs.r9)

raw_syscall(regs) ==
    raw_syscall_impl(regs.rax, regs.rdi, regs.rsi, regs.rdx, regs.r10, regs.r8, regs.r9)

\* a load that returns the slot's initial value
get_hook_fn_Initial == "default_hook"

\* get_hook_fn: the pointer the slot holds
get_hook_fn == HOOK_FUNCTION

\* a reentrancy check that forgets to set the flag
ReentryCheck_NoSet(in_hook) == [reentrant |-> in_hook, flag |-> in_hook]

\* the closure of IN_HOOK.with in hook_entry: whether the call is reentrant,
\* and the flag it leaves
ReentryCheck(in_hook) ==
    IF in_hook THEN [reentrant |-> TRUE, flag |-> in_hook]
    ELSE [reentrant |-> FALSE, flag |-> TRUE]

\* a hook_entry that leaves the flag as it is after the hook
ResetFlag_Keep(in_hook) == in_hook

\* IN_HOOK.with(|in_hook| in_hook.set(false)) after the hook returned
ResetFlag(in_hook) == FALSE

\* a flag kept in one static shared by all threads
IN_HOOK_set_Shared(flags, t, v) == [u \in DOMAIN flags |-> v]

\* in_hook.set(v) by thread t: thread_local! gives each thread its own Cell
IN_HOOK_set(flags, t, v) == [flags EXCEPT ![t] = v]

\* Mutex::new(value): the protected value and the thread that holds the lock
NoThread == "none"
Mutex_new(value) == [value |-> value, holder |-> NoThread]

\* test_hook of the tests returns 42
TestHookResult == 42

\* A frame of a thread's call stack. fn is "hook_entry" or the hook that runs.
\* regs is hook_entry's record; entryFlag the thread's flag when the frame was
\* entered; reentrant what the flag check found; hook_fn the
\* loaded pointer; result the value the frame returns; raw the raw syscalls
\* the frame itself issued, each with the registers given to the kernel and
\* the kernel's answer. published is kept from a hook_entry call's entry with
\* the flag false until it calls the hook: the pointer the slot held on entry
\* (the last one __hook_init had stored by then), or NoHook once another
\* __hook_init has completed before the call loaded the slot.
Frame(fn, pc, regs, flag) ==
    [fn |-> fn, pc |-> pc, regs |-> regs, entryFlag |-> flag, reentrant |-> FALSE,
     hook_fn |-> NoHook, result |-> 0, raw |-> <<>>,
     published |-> IF fn = "hook_entry" /\ ~flag THEN HOOK_FUNCTION ELSE NoHook]

Depth(t) == Len(stack[t])
Top(t) == stack[t][Depth(t)]
Below(t) == stack[t][Depth(t) - 1]
SetTop(t, f) == [stack EXCEPT ![t] = [@ EXCEPT ![Depth(t)] = f]]
Push(s, f) == Append(s, f)
Pop(s) == SubSeq(s, 1, Len(s) - 1)

IsTop(t, fn, pc) == Depth(t) > 0 /\ Top(t).fn = fn /\ Top(t).pc = pc

\* a raw syscall issued by frame f on record regs, answered k by the kernel
WithRaw(f, regs, k) ==
    [f EXCEPT !.raw = Append(@, [req |-> raw_syscall(regs), res |-> k]),
              !.result = k, !.pc = "ret"]

\* The application executes a rewritten syscall site: the stub calls
\* hook_entry(regs), which first counts the call.
AppSyscall(t, r) ==
    /\ Depth(t) = 0
    /\ calls[t] < MaxCalls
    /\ stack' = [stack EXCEPT ![t] = Push(@, Frame("hook_entry", "check", r, IN_HOOK[t]))]
    /\ HOOK_ENTRY_CALL_COUNT' = HOOK_ENTRY_CALL_COUNT + 1
    /\ calls' = [calls EXCEPT ![t] = @ + 1]
    /\ UNCHANGED <<HOOK_FUNCTION, IN_HOOK, hookCalls, HOOK_TRAIT_OBJECT, rwVars, stubVars, initVars, mapsVars, dispVars>>

\* hook_entry: the reentrancy check
HookEntryCheck(t) ==
    /\ IsTop(t, "hook_entry", "check")
    /\ LET c == ReentryCheck(IN_HOOK[t]) IN
        /\ IN_HOOK' = IN_HOOK_set(IN_HOOK, t, c.flag)
        /\ stack' = SetTop(t, [Top(t) EXCEPT !.reentrant = c.reentrant,
                                             !.pc = IF c.reentrant THEN "raw" ELSE "load"])
    /\ UNCHANGED <<HOOK_FUNCTION, HOOK_ENTRY_CALL_COUNT, calls, hookCalls, HOOK_TRAIT_OBJECT, rwVars, stubVars, initVars, mapsVars, dispVars>>

\* hook_entry, reentry detected: raw_syscall(regs), return its result
HookEntryRaw(t) ==
    /\ IsTop(t, "hook_entry", "raw")
    /\ \E k \in KernelResults : stack' = SetTop(t, WithRaw(Top(t), Top(t).regs, k))
    /\ UNCHANGED <<HOOK_FUNCTION, IN_HOOK, HOOK_ENTRY_CALL_COUNT, calls, hookCalls, HOOK_TRAIT_OBJECT, rwVars, stubVars, initVars, mapsVars, dispVars>>

\* hook_entry: let hook_fn = get_hook_fn()
HookEntryLoad(t) ==
    /\ IsTop(t, "hook_entry", "load")
    /\ stack' = SetTop(t, [Top(t) EXCEPT !.hook_fn = get_hook_fn, !.pc = "call"])
    /\ UNCHANGED <<HOOK_FUNCTION, IN_HOOK, HOOK_ENTRY_CALL_COUNT, calls, hookCalls, HOOK_TRAIT_OBJECT, rwVars, stubVars, initVars, mapsVars, dispVars>>

\* hook_entry: hook_fn(regs)
HookEntryCall(t) ==
    /\ IsTop(t, "hook_entry", "call")
    /\ Depth(t) < MaxStack
    /\ stack' = [stack EXCEPT ![t] =
                    Push([@ EXCEPT ![Depth(t)].pc = "wait", ![Depth(t)].published = NoHook],
                         Frame(Top(t).hook_fn, "start", Top(t).regs, IN_HOOK[t]))]
    /\ hookCalls' = [hookCalls EXCEPT ![t] = @ + 1]
    /\ UNCHANGED <<HOOK_FUNCTION, IN_HOOK, HOOK_ENTRY_CALL_COUNT, calls, HOOK_TRAIT_OBJECT, rwVars, stubVars, initVars, mapsVars, dispVars>>

\* a default hook that issues the syscall on a zeroed record
DefaultHook_Zeroed(t) ==
    /\ IsTop(t, "default_hook", "start")
    /\ \E k \in KernelResults :
          stack' = SetTop(t, WithRaw(Top(t), SyscallRegs(0, 0, 0, 0, 0, 0, 0), k))
    /\ UNCHANGED <<HOOK_FUNCTION, IN_HOOK, HOOK_ENTRY_CALL_COUNT, calls, hookCalls, HOOK_TRAIT_OBJECT, rwVars, stubVars, initVars, mapsVars, dispVars>>

\* default_hook: raw_syscall(regs)
DefaultHook(t) ==
    /\ IsTop(t, "default_hook", "start")
    /\ \E k \in KernelResults : stack' = SetTop(t, WithRaw(Top(t), Below(t).regs, k))
    /\ UNCHANGED <<HOOK_FUNCTION, IN_HOOK, HOOK_ENTRY_CALL_COUNT, calls, hookCalls, HOOK_TRAIT_OBJECT, rwVars, stubVars, initVars, mapsVars, dispVars>>

\* test_hook: returns 42 without a syscall
TestHook(t) ==
    /\ IsTop(t, "test_hook", "start")
    /\ stack' = SetTop(t, [Top(t) EXCEPT !.result = TestHookResult, !.pc = "ret"])
    /\ UNCHANGED <<HOOK_FUNCTION, IN_HOOK, HOOK_ENTRY_CALL_COUNT, calls, hookCalls, HOOK_TRAIT_OBJECT, rwVars, stubVars, initVars, mapsVars, dispVars>>

\* trace_hook: eprintln! writes to stderr through the rewritten libc, so the
\* write enters hook_entry again
TraceHookPrint(t) ==
    /\ IsTop(t, "trace_hook", "start")
    /\ Depth(t) < MaxStack
    /\ stack' = [stack EXCEPT ![t] =
                    Push([@ EXCEPT ![Depth(t)].pc = "printed"],
                         Frame("hook_entry", "check", WriteRegs, IN_HOOK[t]))]
    /\ HOOK_ENTRY_CALL_COUNT' = HOOK_ENTRY_CALL_COUNT + 1
    /\ UNCHANGED <<HOOK_FUNCTION, IN_HOOK, calls, hookCalls, HOOK_TRAIT_OBJECT, rwVars, stubVars, initVars, mapsVars, dispVars>>

\* trace_hook: raw_syscall(regs) after the trace line
TraceHookRaw(t) ==
    /\ IsTop(t, "trace_hook", "printed")
    /\ \E k \in KernelResults : stack' = SetTop(t, WithRaw(Top(t), Below(t).regs, k))
    /\ UNCHANGED <<HOOK_FUNCTION, IN_HOOK, HOOK_ENTRY_CALL_COUNT, calls, hookCalls, HOOK_TRAIT_OBJECT, rwVars, stubVars, initVars, mapsVars, dispVars>>

\* the hook returns to hook_entry
HookReturn(t) ==
    /\ Depth(t) > 1
    /\ Top(t).fn \in HookFns
    /\ Top(t).pc = "ret"
    /\ stack' = [stack EXCEPT ![t] =
                    [Pop(@) EXCEPT ![Depth(t) - 1].result = Top(t).result,
                                   ![Depth(t) - 1].pc = "clear"]]
    /\ UNCHANGED <<HOOK_FUNCTION, IN_HOOK, HOOK_ENTRY_CALL_COUNT, calls, hookCalls, HOOK_TRAIT_OBJECT, rwVars, stubVars, initVars, mapsVars, dispVars>>

\* hook_entry: reset the flag after the hook
HookEntryClear(t) ==
    /\ IsTop(t, "hook_entry", "clear")
    /\ IN_HOOK' = IN_HOOK_set(IN_HOOK, t, ResetFlag(IN_HOOK[t]))
    /\ stack' = SetTop(t, [Top(t) EXCEPT !.pc = "ret"])
    /\ UNCHANGED <<HOOK_FUNCTION, HOOK_ENTRY_CALL_COUNT, calls, hookCalls, HOOK_TRAIT_OBJECT, rwVars, stubVars, initVars, mapsVars, dispVars>>

\* hook_entry returns its result to the stub (or to the libc inside a hook)
HookEntryReturn(t) ==
    /\ IsTop(t, "hook_entry", "ret")
    /\ stack' = [stack EXCEPT ![t] = Pop(@)]
    /\ UNCHANGED <<HOOK_FUNCTION, IN_HOOK, HOOK_ENTRY_CALL_COUNT, calls, hookCalls, HOOK_TRAIT_OBJECT, rwVars, stubVars, initVars, mapsVars, dispVars>>

\* the hook_entry calls that have not loaded the slot yet see a store happen
NoteStore(s) ==
    [t \in DOMAIN s |->
        [i \in DOMAIN s[t] |->
            IF s[t][i].fn = "hook_entry" /\ s[t][i].pc \in {"check", "load"}
            THEN [s[t][i] EXCEPT !.published = NoHook] ELSE s[t][i]]]

\* a registration that takes effect only while the slot holds default_hook
HookInit_FirstWins(f) ==
    /\ HOOK_FUNCTION' = IF HOOK_FUNCTION = "default_hook" THEN f ELSE HOOK_FUNCTION
    /\ stack' = NoteStore(stack)
    /\ UNCHANGED <<IN_HOOK, HOOK_ENTRY_CALL_COUNT, calls, hookCalls, HOOK_TRAIT_OBJECT, rwVars, stubVars, initVars, mapsVars, dispVars>>

\* __hook_init(hook_fn): HOOK_FUNCTION.store(hook_fn, SeqCst)
HookInit(f) ==
    /\ HOOK_FUNCTION' = f
    /\ stack' = NoteStore(stack)
    /\ UNCHANGED <<IN_HOOK, HOOK_ENTRY_CALL_COUNT, calls, hookCalls, HOOK_TRAIT_OBJECT, rwVars, stubVars, initVars, mapsVars, dispVars>>

----------------------------------------------------------------------------
(* Rewriter: zpoline_rewriter/src/rewriter.rs, zpoline_rewriter/src/maps.rs *)

\* Option<PathBuf>: a path is the sequence of its components
NoPath == [some |-> FALSE, path |-> <<>>]
SomePath(p) == [some |-> TRUE, path |-> p]

\* MemoryRegion, the fields the rewriter reads
MemoryRegion(start, end, writable, executable, pathname) ==
    [start |-> start, end |-> end, readable |-> TRUE, writable |-> writable,
     executable |-> executable, private |-> TRUE, pathname |-> pathname]

is_executable(region) == region.executable
is_writable(region) == region.writable
size(region) == region.end - region.start

\* RewriteConfig::default and its builder methods
RewriteConfig_new == [exclude_paths |-> {}, exclude_ranges |-> <<>>, dry_run |-> FALSE]
exclude_path(cfg, path) == [cfg EXCEPT !.exclude_paths = @ \cup {path}]
exclude_range(cfg, start, end) == [cfg EXCEPT !.exclude_ranges = Append(@, <<start, end>>)]
dry_run(cfg, enabled) == [cfg EXCEPT !.dry_run = enabled]

\* Path::starts_with: base is a prefix of path, component by component
starts_with(path, base) ==
    Len(base) <= Len(path) /\ SubSeq(path, 1, Len(base)) = base

\* an exclusion check that looks at the paths only
is_excluded_PathsOnly(cfg, region) ==
    /\ region.pathname.some
    /\ \E e \in cfg.exclude_paths :
          starts_with(region.pathname.path, e) \/ region.pathname.path = e

\* an exclusion check whose range comparison counts the end points
is_excluded_Inclusive(cfg, region) ==
    \/ /\ region.pathname.some
       /\ \E e \in cfg.exclude_paths :
             starts_with(region.pathname.path, e) \/ region.pathname.path = e
    \/ \E k \in 1..Len(cfg.exclude_ranges) :
          /\ region.start <= cfg.exclude_ranges[k][2]
          /\ region.end >= cfg.exclude_ranges[k][1]

\* RewriteConfig::is_excluded
is_excluded(cfg, region) ==
    \/ /\ region.pathname.some
       /\ \E e \in cfg.exclude_paths :
             starts_with(region.pathname.path, e) \/ region.pathname.path = e
    \/ \E k \in 1..Len(cfg.exclude_ranges) :
          /\ region.start < cfg.exclude_ranges[k][2]
          /\ region.end > cfg.exclude_ranges[k][1]

\* RewriteStats::default
RewriteStats_default ==
    [regions_scanned |-> 0, regions_rewritten |-> 0, syscalls_replaced |-> 0,
     sysenters_replaced |-> 0, regions_skipped |-> 0]

\* The instruction bytes the rewriter names
ESCAPE_0F == 15
SYSCALL_05 == 5
SYSENTER_34 == 52
CALL_FF == 255
CALL_D0 == 208

\* The x86-64 decoder (iced_x86 Decoder, 64-bit mode) on the instructions the
\* model's regions hold. pos and start are 0-based offsets into code; start is
\* the first byte of the instruction, prefixes included; rexw says whether a
\* REX prefix with W set was read. The result is the instruction's length and
\* mnemonic. An instruction the buffer cuts short is INVALID and takes the
\* rest of the buffer.
Byte(code, off) == code[off + 1]
IsRex(b) == b \in 64..79
\* a decoder that takes an instruction's full length where the buffer cuts it short
Instr_Overrun(code, start, pos, need, mnemonic) ==
    [len |-> pos + need - start, mnemonic |-> mnemonic]

Instr(code, start, pos, need, mnemonic) ==
    IF pos + need > Len(code)
    THEN [len |-> Len(code) - start, mnemonic |-> "INVALID"]
    ELSE [len |-> pos + need - start, mnemonic |-> mnemonic]

RECURSIVE DecodeOpcode(_, _, _, _)
DecodeOpcode(code, start, pos, rexw) ==
    IF pos >= Len(code) THEN [len |-> Len(code) - start, mnemonic |-> "INVALID"]
    ELSE LET b == Byte(code, pos) IN
        IF IsRex(b) THEN DecodeOpcode(code, start, pos + 1, b >= 72)
        ELSE IF b = 144 THEN Instr(code, start, pos, 1, "Nop")
        ELSE IF b = 195 THEN Instr(code, start, pos, 1, "Ret")
        ELSE IF b = 184 THEN Instr(code, start, pos, IF rexw THEN 9 ELSE 5, "Mov")
        ELSE IF b = 199 /\ pos + 1 < Len(code) /\ Byte(code, pos + 1) >= 192
             THEN Instr(code, start, pos, 6, "Mov")
        ELSE IF b = CALL_FF /\ pos + 1 < Len(code) /\ Byte(code, pos + 1) >= 192
             THEN Instr(code, start, pos, 2,
                        IF (Byte(code, pos + 1) \div 8) % 8 = 2 THEN "Call" ELSE "Other")
        ELSE IF b = ESCAPE_0F /\ pos + 1 < Len(code)
             THEN Instr(code, start, pos, 2,
                        IF Byte(code, pos + 1) = SYSCALL_05 THEN "Syscall"
                        ELSE IF Byte(code, pos + 1) = SYSENTER_34 THEN "Sysenter"
                        ELSE "Other")
        ELSE Instr(code, start, pos, 1, "INVALID")

\* decoder.decode() at offset pos of a decoder made with_ip(64, code, base_addr)
decode(code, base_addr, pos) ==
    LET i == DecodeOpcode(code, pos, pos, FALSE) IN
    [ip |-> base_addr + pos, len |-> i.len, mnemonic |-> i.mnemonic]

\* Rewriter::find_syscalls: the loop over decoder.can_decode()
RECURSIVE ScanFrom(_, _, _)
ScanFrom(base_addr, code, pos) ==
    IF pos >= Len(code) THEN <<>>
    ELSE LET instr == decode(code, base_addr, pos)
             offset == instr.ip - base_addr
             rest == ScanFrom(base_addr, code, pos + instr.len)
         IN IF instr.mnemonic = "Syscall"
               THEN <<[offset |-> offset, type |-> "Syscall"]>> \o rest
            ELSE IF instr.mnemonic = "Sysenter"
               THEN <<[offset |-> offset, type |-> "Sysenter"]>> \o rest
            ELSE rest

\* a scanner that looks for the byte pairs without decoding
find_syscalls_BytePairs(base_addr, code) ==
    LET hits == SelectSeq([k \in 1..(Len(code) - 1) |-> k - 1],
                          LAMBDA off : /\ Byte(code, off) = ESCAPE_0F
                                       /\ Byte(code, off + 1) \in {SYSCALL_05, SYSENTER_34})
    IN [k \in 1..Len(hits) |->
           [offset |-> hits[k],
            type |-> IF Byte(code, hits[k] + 1) = SYSCALL_05 THEN "Syscall" ELSE "Sysenter"]]

find_syscalls(base_addr, code) == ScanFrom(base_addr, code, 0)

\* a re-verification that knows the syscall encoding only
StillSite_SyscallOnly(b0, b1) == b0 = ESCAPE_0F /\ b1 = SYSCALL_05

\* rewrite_region's re-verification of a site before it is overwritten
StillSite(b0, b1) == b0 = ESCAPE_0F /\ (b1 = SYSCALL_05 \/ b1 = SYSENTER_34)

\* a replacement written one byte too far
PatchSite_Shifted(code, offset) ==
    [code EXCEPT ![offset + 2] = CALL_FF, ![offset + 3] = CALL_D0]

\* the two stores that put callq *%rax over a site
PatchSite(code, offset) ==
    [code EXCEPT ![offset + 1] = CALL_FF, ![offset + 2] = CALL_D0]

\* a loop that stops after the first site it replaces
PatchLoop_FirstOnly(acc, replacements, k, base) ==
    LET hits == { j \in k..Len(replacements) :
                    StillSite(Byte(acc.code, replacements[j].offset),
                              Byte(acc.code, replacements[j].offset + 1)) }
    IN IF hits = {} THEN acc
       ELSE LET j == CHOOSE x \in hits : \A y \in hits : x <= y
                offset == replacements[j].offset
                ty == replacements[j].type
            IN [code |-> PatchSite(acc.code, offset),
                replaced_count |-> acc.replaced_count + 1,
                syscalls |-> acc.syscalls + (IF ty = "Syscall" THEN 1 ELSE 0),
                sysenters |-> acc.sysenters + (IF ty = "Sysenter" THEN 1 ELSE 0),
                events |-> Append(acc.events,
                             [op |-> "write", addr |-> base + offset, len |-> 2,
                              prot |-> {}, ok |-> TRUE])]

\* rewrite_region's loop over the replacements. acc holds the bytes, the
\* count of replaced sites, the two counters' increments and the writes made.
RECURSIVE PatchLoop(_, _, _, _)
PatchLoop(acc, replacements, k, base) ==
    IF k > Len(replacements) THEN acc
    ELSE LET offset == replacements[k].offset
             ty == replacements[k].type
         IN IF StillSite(Byte(acc.code, offset), Byte(acc.code, offset + 1))
            THEN PatchLoop(
                   [code |-> PatchSite(acc.code, offset),
                    replaced_count |-> acc.replaced_count + 1,
                    syscalls |-> acc.syscalls + (IF ty = "Syscall" THEN 1 ELSE 0),
                    sysenters |-> acc.sysenters + (IF ty = "Sysenter" THEN 1 ELSE 0),
                    events |-> Append(acc.events,
                                 [op |-> "write", addr |-> base + offset, len |-> 2,
                                  prot |-> {}, ok |-> TRUE])],
                   replacements, k + 1, base)
            ELSE PatchLoop(acc, replacements, k + 1, base)

RWX == {"r", "w", "x"}

\* a read+execute protection that keeps write
RX_KeepsWrite == {"r", "w", "x"}

RX == {"r", "x"}

Ok(n) == [ok |-> TRUE, count |-> n, err |-> "none"]
Err(e) == [ok |-> FALSE, count |-> 0, err |-> e]

Mprotect(addr, len, flags, ok) ==
    [op |-> "mprotect", addr |-> addr, len |-> len, prot |-> flags, ok |-> ok]

\* what a rewrite_region call leaves: the statistics, the region's bytes and
\* page protection, the sites found, the returned value, the effects in order
Outcome(st, code, pr, sites, ret, events) ==
    [stats |-> st, code |-> code, prot |-> pr, sites |-> sites, ret |-> ret,
     events |-> events]

\* a rewrite_region that does not look at the result of the first mprotect
rewrite_region_Unchecked(cfg, st, region, code, pr, ok1, ok2) ==
    LET st1 == [st EXCEPT !.regions_scanned = @ + 1] IN
    IF ~is_executable(region) THEN Outcome(st1, code, pr, <<>>, Ok(0), <<>>)
    ELSE IF is_excluded(cfg, region)
    THEN Outcome([st1 EXCEPT !.regions_skipped = @ + 1], code, pr, <<>>, Ok(0), <<>>)
    ELSE
    LET code_slice == SubSeq(code, 1, size(region))
        replacements == find_syscalls(region.start, code_slice)
    IN
    IF replacements = <<>> THEN Outcome(st1, code, pr, replacements, Ok(0), <<>>)
    ELSE IF cfg.dry_run
    THEN Outcome([st1 EXCEPT !.syscalls_replaced = @ + Len(replacements)],
                 code, pr, replacements, Ok(Len(replacements)), <<>>)
    ELSE
    LET original_prot == IF is_writable(region) THEN RWX ELSE RX
        aligned_start == (region.start \div PageSize) * PageSize
        aligned_size ==
            ((region.end - aligned_start + PageSize - 1) \div PageSize) * PageSize
        first == Mprotect(aligned_start, aligned_size, RWX, ok1)
    IN
    IF aligned_start = 0
    THEN Outcome(st1, code, pr, replacements, Err("Other"), <<>>)
    ELSE
    LET p == PatchLoop([code |-> code, replaced_count |-> 0, syscalls |-> 0,
                        sysenters |-> 0, events |-> <<first>>],
                       replacements, 1, region.start)
        st2 == [st1 EXCEPT !.syscalls_replaced = @ + p.syscalls,
                           !.sysenters_replaced = @ + p.sysenters]
        second == Mprotect(aligned_start, aligned_size, original_prot, ok2)
    IN
    IF ~ok2
    THEN Outcome(st2, p.code, RWX, replacements, Err("ProtectError"),
                 Append(p.events, second))
    ELSE Outcome(IF p.replaced_count > 0
                    THEN [st2 EXCEPT !.regions_rewritten = @ + 1] ELSE st2,
                 p.code, original_prot, replacements, Ok(p.replaced_count),
                 Append(p.events, second))

\* Rewriter::rewrite_region on `region`, whose bytes are code and whose pages
\* have protection pr; ok1 and ok2 say whether the kernel grants the two
\* mprotect calls.
rewrite_region(cfg, st, region, code, pr, ok1, ok2) ==
    LET st1 == [st EXCEPT !.regions_scanned = @ + 1] IN
    IF ~is_executable(region) THEN Outcome(st1, code, pr, <<>>, Ok(0), <<>>)
    ELSE IF is_excluded(cfg, region)
    THEN Outcome([st1 EXCEPT !.regions_skipped = @ + 1], code, pr, <<>>, Ok(0), <<>>)
    ELSE
    LET code_slice == SubSeq(code, 1, size(region))
        replacements == find_syscalls(region.start, code_slice)
    IN
    IF replacements = <<>> THEN Outcome(st1, code, pr, replacements, Ok(0), <<>>)
    ELSE IF cfg.dry_run
    THEN Outcome([st1 EXCEPT !.syscalls_replaced = @ + Len(replacements)],
                 code, pr, replacements, Ok(Len(replacements)), <<>>)
    ELSE
    LET original_prot == IF is_writable(region) THEN RWX ELSE RX
        aligned_start == (region.start \div PageSize) * PageSize
        aligned_size ==
            ((region.end - aligned_start + PageSize - 1) \div PageSize) * PageSize
        first == Mprotect(aligned_start, aligned_size, RWX, ok1)
    IN
    IF aligned_start = 0
    THEN Outcome(st1, code, pr, replacements, Err("Other"), <<>>)
    ELSE IF ~ok1
    THEN Outcome(st1, code, pr, replacements, Err("ProtectError"), <<first>>)
    ELSE
    LET p == PatchLoop([code |-> code, replaced_count |-> 0, syscalls |-> 0,
                        sysenters |-> 0, events |-> <<first>>],
                       replacements, 1, region.start)
        st2 == [st1 EXCEPT !.syscalls_replaced = @ + p.syscalls,
                           !.sysenters_replaced = @ + p.sysenters]
        second == Mprotect(aligned_start, aligned_size, original_prot, ok2)
    IN
    IF ~ok2
    THEN Outcome(st2, p.code, RWX, replacements, Err("ProtectError"),
                 Append(p.events, second))
    ELSE Outcome(IF p.replaced_count > 0
                    THEN [st2 EXCEPT !.regions_rewritten = @ + 1] ELSE st2,
                 p.code, original_prot, replacements, Ok(p.replaced_count),
                 Append(p.events, second))

\* The instructions a region of the model holds: ret; syscall; sysenter;
\* syscall behind a REX.W prefix; mov eax, 0x50f (0F 05 inside the
\* immediate); mov rax, 1 (the instruction of test_find_syscall_in_code).
Instructions ==
    { <<195>>, <<15, 5>>, <<15, 52>>, <<72, 15, 5>>, <<184, 15, 5, 0, 0>>,
      <<72, 199, 192, 1, 0, 0, 0>> }

RECURSIVE Concat(_)
Concat(ss) == IF ss = <<>> THEN <<>> ELSE Head(ss) \o Concat(Tail(ss))

\* the bytes of a page: the instructions, then NOPs up to the page's end
Padded(bytes) == bytes \o [i \in 1..(PageSize - Len(bytes)) |-> 144]

\* the sequences of at most n instructions that fit a page
InstrSeqs(n) ==
    { q \in UNION {[1..k -> Instructions] : k \in 0..n} : Len(Concat(q)) <= PageSize }

\* every page made of at most n instructions
Contents(n) == { Padded(Concat(ss)) : ss \in InstrSeqs(n) }

NoCall == [idx |-> 0, sites |-> <<>>, ret |-> Ok(0), events |-> <<>>]

\* a call that counts from fresh statistics
RewriteRegionCall_FreshStats(i, ok1, ok2) ==
    LET o == rewrite_region(config, RewriteStats_default, regions[i], mem[i], prot[i],
                            ok1, ok2) IN
    /\ stats' = o.stats
    /\ mem' = [mem EXCEPT ![i] = o.code]
    /\ prot' = [prot EXCEPT ![i] = o.prot]
    /\ last' = [idx |-> i, sites |-> o.sites, ret |-> o.ret, events |-> o.events]

\* one call of rewriter.rewrite_region(&regions[i])
RewriteRegionCall(i, ok1, ok2) ==
    LET o == rewrite_region(config, stats, regions[i], mem[i], prot[i], ok1, ok2) IN
    /\ stats' = o.stats
    /\ mem' = [mem EXCEPT ![i] = o.code]
    /\ prot' = [prot EXCEPT ![i] = o.prot]
    /\ last' = [idx |-> i, sites |-> o.sites, ret |-> o.ret, events |-> o.events]

\* rewrite_region called on a region, as a user of the Rewriter may
RewriteRegion(i, ok1, ok2) ==
    /\ boot.pc = "none"
    /\ stats.regions_scanned < MaxRewrites
    /\ RewriteRegionCall(i, ok1, ok2)
    /\ UNCHANGED <<regions, config, layout, boot, hookVars, stubVars, initVars, mapsVars, dispVars>>

\* the addresses the model's regions start at
RegionBase == 65536 * PageSize

LibcPath == <<"lib", "libc.so">>
LibmPath == <<"lib", "libm.so">>
NoLayout == [raw_syscall |-> 0, syscall_insn |-> 0, exe_parent |-> NoPath,
             env |-> [some |-> FALSE, segments |-> <<>>]]
NoBoot == [pc |-> "none", idx |-> 0, warnings |-> 0]

\* one executable or plain region of one page, and a Rewriter made by
\* Rewriter::new from any configuration
InitRewrite ==
    /\ \E c \in Contents(MaxInstrs), w \in BOOLEAN, x \in BOOLEAN,
          p \in {NoPath, SomePath(LibcPath), SomePath(<<"lib", "libc.so.6">>)} :
        /\ regions = << MemoryRegion(RegionBase, RegionBase + PageSize, w, x, p) >>
        /\ mem = << c >>
        /\ prot = << (IF w THEN {"w"} ELSE {}) \cup (IF x THEN {"x"} ELSE {}) \cup {"r"} >>
    /\ \E ps \in {{}, {LibcPath}},
          rs \in { <<>>, << <<RegionBase - PageSize, RegionBase>> >>,
                   << <<RegionBase + 1, RegionBase + 2>> >>,
                   << <<RegionBase + 1, RegionBase + 1>> >> },
          d \in BOOLEAN :
        config = [exclude_paths |-> ps, exclude_ranges |-> rs, dry_run |-> d]
    /\ stats = RewriteStats_default
    /\ last = NoCall
    /\ layout = NoLayout
    /\ boot = NoBoot

\* the rewriter at rest, for the specifications of the other parts
RwIdle ==
    /\ regions = <<>>
    /\ mem = <<>>
    /\ prot = <<>>
    /\ config = RewriteConfig_new
    /\ stats = RewriteStats_default
    /\ last = NoCall
    /\ layout = NoLayout
    /\ boot = NoBoot

NextRewrite ==
    \E ok1 \in BOOLEAN, ok2 \in BOOLEAN : RewriteRegion(1, ok1, ok2)

\* Rewriter::reset_stats, called by a user of the Rewriter after some call
ResetStats ==
    /\ boot.pc = "none"
    /\ stats # RewriteStats_default
    /\ stats' = RewriteStats_default
    /\ UNCHANGED <<regions, mem, prot, config, last, layout, boot, hookVars, stubVars, initVars, mapsVars, dispVars>>

\* the operations of a Rewriter: rewrite_region, stats (a read), reset_stats
NextRewriterOps ==
    \/ \E ok1 \in BOOLEAN, ok2 \in BOOLEAN : RewriteRegion(1, ok1, ok2)
    \/ ResetStats

----------------------------------------------------------------------------
(* Bootstrap rewriting: zpoline_loader/src/init.rs *)

\* the span build_rewrite_config excludes from raw_syscall's address on
HookApiSpan == 4096
\* the end of the excluded low range that holds the trampoline
TrampolineSlack == 65536

LoaderLib == "libzpoline_loader.so"
LoaderDir == <<"opt", "zp">>

RECURSIVE AddExcludePaths(_, _)
\* the loop over ZPOLINE_EXCLUDE's segments, empty segments ignored
AddExcludePaths(cfg, segments) ==
    IF segments = <<>> THEN cfg
    ELSE AddExcludePaths(IF Head(segments) # <<>> THEN exclude_path(cfg, Head(segments))
                         ELSE cfg,
                         Tail(segments))

\* a configuration that forgets the range of the raw syscall path
build_rewrite_config_NoApiRange(exe_parent, raw_syscall_addr, env) ==
    LET c1 == IF exe_parent.some
              THEN exclude_path(RewriteConfig_new, Append(exe_parent.path, LoaderLib))
              ELSE RewriteConfig_new
        c3 == exclude_range(c1, 0, TrampolineSlack)
    IN IF env.some THEN AddExcludePaths(c3, env.segments) ELSE c3

\* a configuration that forgets the low range that holds the trampoline
build_rewrite_config_NoLowRange(exe_parent, raw_syscall_addr, env) ==
    LET c1 == IF exe_parent.some
              THEN exclude_path(RewriteConfig_new, Append(exe_parent.path, LoaderLib))
              ELSE RewriteConfig_new
        hook_api_start == raw_syscall_addr
        hook_api_end == hook_api_start + HookApiSpan
        c2 == exclude_range(c1, hook_api_start, hook_api_end)
    IN IF env.some THEN AddExcludePaths(c2, env.segments) ELSE c2

\* build_rewrite_config. exe_parent is the directory of current_exe(),
\* raw_syscall_addr the address of zpoline_hook_api::raw_syscall, env the
\* variable ZPOLINE_EXCLUDE split at ':'.
build_rewrite_config(exe_parent, raw_syscall_addr, env) ==
    LET c1 == IF exe_parent.some
              THEN exclude_path(RewriteConfig_new, Append(exe_parent.path, LoaderLib))
              ELSE RewriteConfig_new
        hook_api_start == raw_syscall_addr
        hook_api_end == hook_api_start + HookApiSpan
        c2 == exclude_range(c1, hook_api_start, hook_api_end)
        c3 == exclude_range(c2, 0, TrampolineSlack)
    IN IF env.some THEN AddExcludePaths(c3, env.segments) ELSE c3

\* rewrite_syscalls' test for the kernel's own regions
IsKernelRegion(region) ==
    /\ region.pathname.some
    /\ \E j \in 1..Len(region.pathname.path) :
          region.pathname.path[j] \in {"[vdso]", "[vsyscall]"}

\* rewrite_syscalls: parse_proc_maps, build_rewrite_config, Rewriter::new
RewriteSyscallsBegin ==
    /\ boot.pc = "start"
    /\ config' = build_rewrite_config(layout.exe_parent, layout.raw_syscall, layout.env)
    /\ stats' = RewriteStats_default
    /\ boot' = [pc |-> "loop", idx |-> 1, warnings |-> 0]
    /\ UNCHANGED <<regions, mem, prot, last, layout, hookVars, stubVars, initVars, mapsVars, dispVars>>

\* a loop that gives up at the first region whose rewrite_region returns Err
RewriteSyscallsStep_StopsAtError(ok1, ok2) ==
    /\ boot.pc = "loop"
    /\ boot.idx <= Len(regions)
    /\ IF ~is_executable(regions[boot.idx]) \/ IsKernelRegion(regions[boot.idx])
       THEN /\ UNCHANGED <<stats, mem, prot, last>>
            /\ boot' = [boot EXCEPT !.idx = @ + 1]
       ELSE /\ RewriteRegionCall(boot.idx, ok1, ok2)
            /\ boot' = [boot EXCEPT !.idx = IF last'.ret.ok THEN @ + 1 ELSE Len(regions) + 1,
                                    !.warnings = IF last'.ret.ok THEN @ ELSE @ + 1]
    /\ UNCHANGED <<regions, config, layout, hookVars, stubVars, initVars, mapsVars, dispVars>>

\* rewrite_syscalls: one turn of the loop over the regions; a region whose
\* rewrite_region returns Err costs a warning line and the loop goes on
RewriteSyscallsStep(ok1, ok2) ==
    /\ boot.pc = "loop"
    /\ boot.idx <= Len(regions)
    /\ IF ~is_executable(regions[boot.idx]) \/ IsKernelRegion(regions[boot.idx])
       THEN /\ UNCHANGED <<stats, mem, prot, last>>
            /\ boot' = [boot EXCEPT !.idx = @ + 1]
       ELSE /\ RewriteRegionCall(boot.idx, ok1, ok2)
            /\ boot' = [boot EXCEPT !.idx = @ + 1,
                                    !.warnings = IF last'.ret.ok THEN @ ELSE @ + 1]
    /\ UNCHANGED <<regions, config, layout, hookVars, stubVars, initVars, mapsVars, dispVars>>

\* rewrite_syscalls: the loop is over, the statistics are returned
RewriteSyscallsEnd ==
    /\ boot.pc = "loop"
    /\ boot.idx > Len(regions)
    /\ boot' = [boot EXCEPT !.pc = "done"]
    /\ UNCHANGED <<regions, mem, prot, config, stats, last, layout, hookVars, stubVars, initVars, mapsVars, dispVars>>

\* where the loader's text and the kernel's vdso are mapped
LoaderBase == 2 * RegionBase
VdsoBase == 3 * RegionBase
LibBase == 4 * RegionBase

\* the offset of the j-th instruction of ss in its page
OffsetOf(ss, j) == Len(Concat(SubSeq(ss, 1, j - 1)))

\* The process map parse_proc_maps returns to rewrite_syscalls: the
\* trampoline's pages at 0, the application's text, the loader's text, which
\* holds raw_syscall and the syscall instruction of raw_syscall_impl, the
\* vdso, the text of a library and its data.
ProcessMap ==
    /\ \E app \in Contents(MaxBootInstrs), appDir \in {<<"usr", "bin">>, LoaderDir},
          ss \in InstrSeqs(MaxBootInstrs), rawOff \in {0, PageSize - 1},
          env \in { [some |-> FALSE, segments |-> <<>>],
                    [some |-> TRUE, segments |-> <<LibcPath, <<>>, LibmPath>>] } :
        \E j \in 1..Len(ss) :
            /\ ss[j] = <<ESCAPE_0F, SYSCALL_05>>
            /\ regions =
                << MemoryRegion(0, PageSize, TRUE, TRUE, NoPath),
                   MemoryRegion(RegionBase, RegionBase + PageSize, FALSE, TRUE,
                                SomePath(Append(appDir, "app"))),
                   MemoryRegion(LoaderBase, LoaderBase + PageSize, FALSE, TRUE,
                                SomePath(Append(LoaderDir, LoaderLib))),
                   MemoryRegion(VdsoBase, VdsoBase + PageSize, FALSE, TRUE,
                                SomePath(<<"[vdso]">>)),
                   MemoryRegion(LibBase, LibBase + PageSize, FALSE, TRUE,
                                SomePath(LibmPath)),
                   MemoryRegion(LibBase + PageSize, LibBase + 2 * PageSize, TRUE, FALSE,
                                SomePath(LibmPath)) >>
            /\ mem = << Padded(<<15, 5>>), app, Padded(Concat(ss)), Padded(<<15, 5, 195>>),
                        Padded(<<15, 52>>), Padded(<<15, 5>>) >>
            /\ layout = [raw_syscall |-> LoaderBase + rawOff,
                         syscall_insn |-> LoaderBase + OffsetOf(ss, j),
                         exe_parent |-> SomePath(appDir), env |-> env]
    /\ prot = << RWX, RX, RX, RX, RX, {"r", "w"} >>
    /\ config = RewriteConfig_new
    /\ stats = RewriteStats_default
    /\ last = NoCall

\* rewrite_syscalls has been called
InitBoot ==
    /\ ProcessMap
    /\ boot = [pc |-> "start", idx |-> 0, warnings |-> 0]

NextBoot ==
    \/ RewriteSyscallsBegin
    \/ \E ok1 \in BOOLEAN, ok2 \in BOOLEAN : RewriteSyscallsStep(ok1, ok2)
    \/ RewriteSyscallsEnd

----------------------------------------------------------------------------
(* Zero-page trampoline: zpoline_loader/src/trampoline.rs *)

MAX_SYSCALL_NR == 512
NOP == 144

\* the record's fields in the order #[repr(C)] lays them out, 8 bytes each
SyscallRegsFields == <<"rax", "rdi", "rsi", "rdx", "r10", "r8", "r9">>
FieldOffset(f) ==
    8 * ((CHOOSE i \in 1..Len(SyscallRegsFields) : SyscallRegsFields[i] = f) - 1)

\* usize::to_le_bytes: the 8 bytes of x, least significant first
RECURSIVE LeBytes(_, _)
LeBytes(x, n) == IF n = 0 THEN <<>> ELSE <<x % 256>> \o LeBytes(x \div 256, n - 1)
to_le_bytes(x) == LeBytes(x, 8)

\* generate_hook_stub, piece by piece
\* push r9; push r8; push r10; push rdx; push rsi; push rdi; push rax
StubSave == <<65, 81, 65, 80, 65, 82, 82, 86, 87, 80>>
\* sub rsp, 8
StubAlign == <<72, 131, 236, 8>>
\* a stub that passes rsp itself, the padding slot, as the record's address
StubArg_NoPad == <<72, 141, 124, 36, 0>>
\* lea rdi, [rsp + 8]
StubArg == <<72, 141, 124, 36, 8>>
\* movabs r11, hook_entry_addr
StubTarget(hook_entry_addr) == <<73, 187>> \o to_le_bytes(hook_entry_addr)
\* call r11
StubCall == <<65, 255, 211>>
\* a stub that leaves the padding on the stack: nop; nop; nop; nop
StubUnalign_Kept == <<144, 144, 144, 144>>
\* add rsp, 8 (the padding)
StubUnalign == <<72, 131, 196, 8>>
\* a stub that restores rax from the record: pop rax; nop; nop; nop
StubSkipRax_PopRax == <<88, 144, 144, 144>>
\* add rsp, 8 (the rax slot)
StubSkipRax == <<72, 131, 196, 8>>
\* a stub that pops rsi before rdi
StubRestore_Swapped == <<94, 95, 90, 65, 90, 65, 88, 65, 89>>
\* pop rdi; pop rsi; pop rdx; pop r10; pop r8; pop r9
StubRestore == <<95, 94, 90, 65, 90, 65, 88, 65, 89>>
\* ret
StubRet == <<195>>

\* bytes written over a buffer from offset at on
Overlay(buf, at, bytes) ==
    [i \in DOMAIN buf |->
        IF i - 1 >= at /\ i - 1 < at + Len(bytes) THEN bytes[i - at] ELSE buf[i]]

\* generate_hook_stub on the slice that starts at stub_offset
generate_hook_stub(buf, stub_offset, hook_entry_addr) ==
    Overlay(buf, stub_offset,
            StubSave \o StubAlign \o StubArg \o StubTarget(hook_entry_addr) \o StubCall
            \o StubUnalign \o StubSkipRax \o StubRestore \o StubRet)

\* a sled whose last byte is left as mapped
FillSled_OffByOne(buf, stub_offset) ==
    [i \in DOMAIN buf |-> IF i - 1 < stub_offset - 1 THEN NOP ELSE buf[i]]

\* the loop `for i in 0..stub_offset { buf[i] = 0x90 }`
FillSled(buf, stub_offset) ==
    [i \in DOMAIN buf |-> IF i - 1 < stub_offset THEN NOP ELSE buf[i]]

generate_trampoline_code(buf, hook_entry_addr) ==
    LET stub_offset == MAX_SYSCALL_NR IN
    generate_hook_stub(FillSled(buf, stub_offset), stub_offset, hook_entry_addr)

\* the address of zpoline_hook_api::hook_entry, in the loader's text
HookEntryAddr == LoaderBase + 4660
\* the rewritten site `callq *%rax` in the application's text, and the
\* instruction after it
SiteAddr == RegionBase + 7
AppReturn == SiteAddr + 2

\* the stack: 8-byte slots around the stack pointer of the calling thread
StackTop == 16 * 256
Slots == {StackTop + 8 * k : k \in -(StackDepth)..2}
Load(m, a) == IF a \in DOMAIN m THEN m[a] ELSE 0
Store(m, a, v) == IF a \in DOMAIN m THEN [m EXCEPT ![a] = v] ELSE m

RegNames == <<"rax", "rcx", "rdx", "rbx", "rsp", "rbp", "rsi", "rdi",
              "r8", "r9", "r10", "r11", "r12", "r13", "r14", "r15">>
Reg(n) == RegNames[n + 1]
\* the registers the C ABI lets a callee overwrite, rax aside
CallerSaved == {"rcx", "rdx", "rsi", "rdi", "r8", "r9", "r10", "r11"}

TByte(a) == IF a + 1 \in DOMAIN tramp THEN tramp[a + 1] ELSE 0

\* little-endian 64-bit immediate at trampoline address a
Imm64(a) ==
    TByte(a) + 256 * (TByte(a + 1) + 256 * (TByte(a + 2) + 256 * (TByte(a + 3)
        + 256 * (TByte(a + 4) + 256 * (TByte(a + 5) + 256 * (TByte(a + 6)
        + 256 * TByte(a + 7)))))))

Machine(c, m, ok) == [cpu |-> c, smem |-> m, ok |-> ok]

\* The processor executes the instruction at c.rip of the trampoline, in
\* 64-bit mode. The instructions are those of the sled and the stub: nop,
\* push r64, pop r64, add/sub r64 imm8, lea r64 [rsp + disp8], mov r64 imm64,
\* call r64, ret. Anything else faults.
Execute(c, m) ==
    LET ip == c.rip
        b0 == TByte(ip)
        rex == b0 \in 64..79
        pl == IF rex THEN 1 ELSE 0
        op == TByte(ip + pl)
        rexB == IF rex /\ b0 % 2 = 1 THEN 8 ELSE 0
        rexR == IF rex /\ (b0 \div 4) % 2 = 1 THEN 8 ELSE 0
        rexW == rex /\ (b0 \div 8) % 2 = 1
        modrm == TByte(ip + pl + 1)
        mod == modrm \div 64
        ext == (modrm \div 8) % 8
        rm == modrm % 8
    IN
    IF op = NOP /\ ~rex
        THEN Machine([c EXCEPT !.rip = ip + 1], m, TRUE)
    ELSE IF op \in 80..87
        THEN Machine([c EXCEPT !.rsp = @ - 8, !.rip = ip + pl + 1],
                     Store(m, c.rsp - 8, c[Reg(op - 80 + rexB)]), TRUE)
    ELSE IF op \in 88..95
        THEN Machine([[c EXCEPT ![Reg(op - 88 + rexB)] = Load(m, c.rsp)]
                         EXCEPT !.rsp = @ + 8, !.rip = ip + pl + 1],
                     m, TRUE)
    ELSE IF op = 131 /\ rexW /\ mod = 3 /\ ext = 5
        THEN Machine([c EXCEPT ![Reg(rm + rexB)] = @ - TByte(ip + pl + 2),
                               !.rip = ip + pl + 3], m, TRUE)
    ELSE IF op = 131 /\ rexW /\ mod = 3 /\ ext = 0
        THEN Machine([c EXCEPT ![Reg(rm + rexB)] = @ + TByte(ip + pl + 2),
                               !.rip = ip + pl + 3], m, TRUE)
    ELSE IF op = 141 /\ rexW /\ mod = 1 /\ rm = 4 /\ TByte(ip + pl + 2) = 36
        THEN Machine([c EXCEPT ![Reg(ext + rexR)] = c.rsp + TByte(ip + pl + 3),
                               !.rip = ip + pl + 4], m, TRUE)
    ELSE IF op \in 184..191 /\ rexW
        THEN Machine([c EXCEPT ![Reg(op - 184 + rexB)] = Imm64(ip + pl + 1),
                               !.rip = ip + pl + 9], m, TRUE)
    ELSE IF op = 255 /\ mod = 3 /\ ext = 2
        THEN Machine([c EXCEPT !.rsp = @ - 8, !.rip = c[Reg(rm + rexB)]],
                     Store(m, c.rsp - 8, ip + pl + 2), TRUE)
    ELSE IF op = 195 /\ ~rex
        THEN Machine([c EXCEPT !.rip = Load(m, c.rsp), !.rsp = @ + 8], m, TRUE)
    ELSE Machine(c, m, FALSE)

\* the record of type SyscallRegs at address p
ReadRecord(m, p) ==
    [f \in {SyscallRegsFields[i] : i \in 1..Len(SyscallRegsFields)} |->
        Load(m, p + FieldOffset(f))]
RECURSIVE WriteFields(_, _, _, _)
WriteFields(m, p, rec, i) ==
    IF i > Len(SyscallRegsFields) THEN m
    ELSE WriteFields(Store(m, p + FieldOffset(SyscallRegsFields[i]), rec[SyscallRegsFields[i]]),
                     p, rec, i + 1)
WriteRecord(m, p, rec) == WriteFields(m, p, rec, 1)

\* what a hook may do to the record it is given
RecordMods == {"none", "rdi", "rax"}
ApplyMod(rec, mod) ==
    IF mod = "rdi" THEN [rec EXCEPT !.rdi = 91]
    ELSE IF mod = "rax" THEN [rec EXCEPT !.rax = 92]
    ELSE rec

NoHookCall == [called |-> FALSE, arg |-> 0, rsp |-> 0, atCall |-> SyscallRegs(0, 0, 0, 0, 0, 0, 0),
               atReturn |-> SyscallRegs(0, 0, 0, 0, 0, 0, 0), ret |-> 0]

\* the registers of the application when it reaches the rewritten site
AppRegs ==
    [r \in {RegNames[i] : i \in 1..16} \cup {"rip"} |->
        CASE r = "rdi" -> 31 [] r = "rsi" -> 32 [] r = "rdx" -> 33 [] r = "r10" -> 34
          [] r = "r8" -> 35 [] r = "r9" -> 36 [] r = "rcx" -> 37 [] r = "r11" -> 38
          [] r = "rsp" -> StackTop [] r = "rip" -> SiteAddr
          [] OTHER -> 60]

\* setup_trampoline: mmap at address 0, then generate_trampoline_code
SetupTrampoline ==
    /\ phase = "unmapped"
    /\ tramp' = generate_trampoline_code([i \in 1..(MAX_SYSCALL_NR + StubRoom) |-> 0],
                                         HookEntryAddr)
    /\ phase' = "ready"
    /\ UNCHANGED <<cpu, smem, entry, hook, hookVars, rwVars, initVars, mapsVars, dispVars>>

\* the application executes the rewritten site, `callq *%rax`, with syscall
\* number n in rax
CallSite(n) ==
    /\ phase = "ready"
    /\ LET c == [cpu EXCEPT !.rax = n, !.rsp = @ - 8, !.rip = n]
           m == Store(smem, cpu.rsp - 8, AppReturn)
       IN /\ cpu' = c
          /\ smem' = m
          /\ entry' = [cpu |-> c, smem |-> m]
    /\ phase' = "run"
    /\ UNCHANGED <<tramp, hook, hookVars, rwVars, initVars, mapsVars, dispVars>>

\* the processor executes one instruction of the trampoline
CpuStep ==
    /\ phase = "run"
    /\ cpu.rip + 1 \in DOMAIN tramp
    /\ LET r == Execute(cpu, smem) IN
        /\ cpu' = r.cpu
        /\ smem' = r.smem
        /\ phase' = IF r.ok THEN "run" ELSE "fault"
    /\ UNCHANGED <<tramp, entry, hook, hookVars, rwVars, initVars, mapsVars, dispVars>>

\* hook_entry runs, from its first instruction to its ret: it may change the
\* record rdi points to, returns v in rax, and leaves in the caller-saved
\* registers whatever it used them for
HookEntryRun(v, mod, junk) ==
    /\ phase = "run"
    /\ cpu.rip = HookEntryAddr
    /\ LET rec == ReadRecord(smem, cpu.rdi)
           out == ApplyMod(rec, mod)
       IN /\ smem' = WriteRecord(smem, cpu.rdi, out)
          /\ cpu' = [r \in DOMAIN cpu |->
                        IF r = "rax" THEN v
                        ELSE IF r = "rip" THEN Load(smem, cpu.rsp)
                        ELSE IF r = "rsp" THEN cpu.rsp + 8
                        ELSE IF r \in CallerSaved /\ junk THEN 77
                        ELSE cpu[r]]
          /\ hook' = [called |-> TRUE, arg |-> cpu.rdi, rsp |-> cpu.rsp,
                      atCall |-> rec, atReturn |-> out, ret |-> v]
    /\ UNCHANGED <<tramp, entry, phase, hookVars, rwVars, initVars, mapsVars, dispVars>>

\* control is back in the application, after the rewritten site
SiteReturn ==
    /\ phase = "run"
    /\ cpu.rip = AppReturn
    /\ phase' = "returned"
    /\ UNCHANGED <<tramp, cpu, smem, entry, hook, hookVars, rwVars, initVars, mapsVars, dispVars>>

InitStub ==
    /\ tramp = <<>>
    /\ cpu = AppRegs
    /\ smem = [a \in Slots |-> a]
    /\ entry = [cpu |-> AppRegs, smem |-> [a \in Slots |-> a]]
    /\ hook = NoHookCall
    /\ phase = "unmapped"

\* the trampoline before bootstrap, for the specifications of the other parts
StubIdle == InitStub

NextStub ==
    \/ SetupTrampoline
    \/ \E n \in 0..(MAX_SYSCALL_NR - 1) : CallSite(n)
    \/ CpuStep
    \/ \E v \in KernelResults, mod \in RecordMods, junk \in BOOLEAN : HookEntryRun(v, mod, junk)
    \/ SiteReturn

----------------------------------------------------------------------------
(* Hook library: zpoline_loader/src/dlmopen.rs *)

\* the null pointer, and the pointer zpoline_hook_init of zpoline_hook_impl
\* returns
NullPtr == "null"
HookLibraryFn == "zpoline_hook_function"

\* What designates a hook library and what the dynamic linker answers:
\* ZPOLINE_HOOK, whether libzpoline_hook_impl.so lies next to the executable,
\* whether dlmopen returns a handle, whether dlsym finds zpoline_hook_init,
\* and the pointer zpoline_hook_init returns.
HookLibrary(env, colocated, opens, has_init, init_ret) ==
    [ZPOLINE_HOOK |-> env, colocated |-> colocated, opens |-> opens,
     has_init |-> has_init, init_ret |-> init_ret]

CustomLib == <<"opt", "hooks", "libtrace.so">>
DefaultLib == Append(LoaderDir, "libzpoline_hook_impl.so")

\* no library designated
NoHookLibrary == HookLibrary(NoPath, FALSE, FALSE, FALSE, NullPtr)

\* a library named by ZPOLINE_HOOK, the colocated default, and a library that
\* cannot be opened, one without zpoline_hook_init, one whose
\* zpoline_hook_init returns null
HookLibraries ==
    { NoHookLibrary,
      HookLibrary(SomePath(CustomLib), FALSE, TRUE, TRUE, HookLibraryFn),
      HookLibrary(SomePath(CustomLib), TRUE, TRUE, TRUE, HookLibraryFn),
      HookLibrary(NoPath, TRUE, TRUE, TRUE, HookLibraryFn),
      HookLibrary(SomePath(CustomLib), FALSE, FALSE, FALSE, NullPtr),
      HookLibrary(SomePath(CustomLib), FALSE, TRUE, FALSE, NullPtr),
      HookLibrary(SomePath(CustomLib), FALSE, TRUE, TRUE, NullPtr) }

\* get_hook_library_path: ZPOLINE_HOOK first, then the colocated default
get_hook_library_path(lib) ==
    IF lib.ZPOLINE_HOOK.some THEN lib.ZPOLINE_HOOK
    ELSE IF lib.colocated THEN SomePath(DefaultLib)
    ELSE NoPath

\* load_hook_library(lib_path): Ok(hook_fn) or the DlmopenError
load_hook_library(lib_path, lib) ==
    IF ~lib_path.some THEN [ok |-> FALSE, hook_fn |-> NullPtr, err |-> "LibraryNotSpecified"]
    ELSE IF ~lib.opens THEN [ok |-> FALSE, hook_fn |-> NullPtr, err |-> "DlmopenFailed"]
    ELSE IF ~lib.has_init THEN [ok |-> FALSE, hook_fn |-> NullPtr, err |-> "SymbolNotFound"]
    ELSE IF lib.init_ret = NullPtr
    THEN [ok |-> FALSE, hook_fn |-> NullPtr, err |-> "SymbolNotFound"]
    ELSE [ok |-> TRUE, hook_fn |-> lib.init_ret, err |-> ""]

----------------------------------------------------------------------------
(* Load-time initializer: zpoline_loader/src/lib.rs *)

\* the invocations of zpoline_init, from whatever threads
Invocations == 1..MaxInvocations

\* the lines zpoline_init writes
Line(text) == [text |-> text, stats |-> RewriteStats_default]
StatsLine(st) == [text |-> "Code rewriting completed", stats |-> st]
HasLine(text) == \E k \in 1..Len(stderr) : stderr[k].text = text
CountLines(text) == Cardinality({k \in 1..Len(stderr) : stderr[k].text = text})

\* std::process::exit
NotExited == [exited |-> FALSE, code |-> 0]
exit(code) == [exited |-> TRUE, code |-> code]
Alive == ~exit_status.exited

\* a guard that lets every caller run the closure
call_once_Unguarded(once) == [once |-> "running", at |-> "body"]

\* Once::call_once: the first caller runs the closure, a caller that arrives
\* while it runs waits for it, a later caller returns at once
call_once(once) ==
    IF once = "incomplete" THEN [once |-> "running", at |-> "body"]
    ELSE IF once = "running" THEN [once |-> once, at |-> "waiting"]
    ELSE [once |-> once, at |-> "returned"]

\* zpoline_init is invoked: INIT_ONCE.call_once(|| { eprintln!(...); ... })
ZpolineInit(t) ==
    /\ Alive
    /\ invocation[t] = "idle"
    /\ LET c == call_once(INIT_ONCE) IN
        /\ INIT_ONCE' = c.once
        /\ invocation' = [invocation EXCEPT ![t] = c.at]
        /\ stderr' = IF c.at = "body"
                     THEN Append(stderr, Line("Initializing zpoline-rs")) ELSE stderr
    /\ UNCHANGED <<exit_status, hook_library, hookVars, rwVars, stubVars, mapsVars, dispVars>>

\* call_once returns in a caller that waited for the closure to finish
OnceWake(t) ==
    /\ Alive
    /\ invocation[t] = "waiting"
    /\ INIT_ONCE = "complete"
    /\ invocation' = [invocation EXCEPT ![t] = "returned"]
    /\ UNCHANGED <<INIT_ONCE, stderr, exit_status, hook_library, hookVars, rwVars, stubVars, mapsVars, dispVars>>

\* the closure calls trampoline::setup_trampoline(), whose mmap succeeds
TrampolineCall(t) ==
    /\ Alive
    /\ invocation[t] = "body"
    /\ SetupTrampoline

\* setup_trampoline returned Ok(())
TrampolineOk(t) ==
    /\ Alive
    /\ invocation[t] = "body"
    /\ phase = "ready"
    /\ invocation' = [invocation EXCEPT ![t] = "rewrite"]
    /\ stderr' = Append(stderr, Line("Trampoline setup successful"))
    /\ UNCHANGED <<INIT_ONCE, exit_status, hook_library, hookVars, rwVars, stubVars, mapsVars, dispVars>>

\* a closure that prints the diagnostic and goes on to the rewriting
TrampolineErr_NoExit(t) ==
    /\ Alive
    /\ invocation[t] = "body"
    /\ phase = "unmapped"
    /\ stderr' = Append(stderr, Line("ERROR: Failed to setup trampoline"))
    /\ invocation' = [invocation EXCEPT ![t] = "rewrite"]
    /\ UNCHANGED <<INIT_ONCE, exit_status, hook_library, hookVars, rwVars, stubVars, mapsVars, dispVars>>

\* setup_trampoline's mmap returns MAP_FAILED: Err(MmapFailed), the
\* diagnostic, std::process::exit(1)
TrampolineErr(t) ==
    /\ Alive
    /\ invocation[t] = "body"
    /\ phase = "unmapped"
    /\ stderr' = Append(stderr, Line("ERROR: Failed to setup trampoline"))
    /\ exit_status' = exit(1)
    /\ UNCHANGED <<INIT_ONCE, invocation, hook_library, hookVars, rwVars, stubVars, mapsVars, dispVars>>

\* a closure that starts the rewriting without looking at setup_trampoline's
\* result
RewriteSyscallsCall_Unordered(t) ==
    /\ Alive
    /\ invocation[t] \in {"body", "rewrite"}
    /\ boot.pc = "none"
    /\ boot' = [boot EXCEPT !.pc = "start"]
    /\ UNCHANGED <<regions, mem, prot, config, stats, last, layout,
                   hookVars, stubVars, initVars, mapsVars, dispVars>>

\* the closure calls init::rewrite_syscalls(), whose parse_proc_maps succeeds
RewriteSyscallsCall(t) ==
    /\ Alive
    /\ invocation[t] = "rewrite"
    /\ boot.pc = "none"
    /\ boot' = [boot EXCEPT !.pc = "start"]
    /\ UNCHANGED <<regions, mem, prot, config, stats, last, layout,
                   hookVars, stubVars, initVars, mapsVars, dispVars>>

\* parse_proc_maps fails: rewrite_syscalls returns Err, the diagnostic,
\* std::process::exit(1)
RewriteSyscallsErr(t) ==
    /\ Alive
    /\ invocation[t] = "rewrite"
    /\ boot.pc = "none"
    /\ stderr' = Append(stderr, Line("ERROR: Failed to rewrite syscalls"))
    /\ exit_status' = exit(1)
    /\ UNCHANGED <<INIT_ONCE, invocation, hook_library, hookVars, rwVars, stubVars, mapsVars, dispVars>>

\* rewrite_syscalls returned Ok(stats): the report, the last line, and the
\* closure returns, which completes the Once
ReportStats(t) ==
    /\ Alive
    /\ invocation[t] = "rewrite"
    /\ boot.pc = "done"
    /\ stderr' = stderr \o << StatsLine(stats), Line("Initialization complete") >>
    /\ INIT_ONCE' = "complete"
    /\ invocation' = [invocation EXCEPT ![t] = "returned"]
    /\ UNCHANGED <<exit_status, hook_library, hookVars, rwVars, stubVars, mapsVars, dispVars>>

\* the process before the dynamic loader runs the constructor
InitLoader ==
    /\ INIT_ONCE = "incomplete"
    /\ invocation = [t \in Invocations |-> "idle"]
    /\ stderr = <<>>
    /\ exit_status = NotExited
    /\ hook_library = NoHookLibrary

\* the initializer at rest, for the specifications of the other parts
LoaderIdle == InitLoader

NextInit ==
    \/ \E t \in Invocations : ZpolineInit(t)
    \/ \E t \in Invocations : OnceWake(t)
    \/ \E t \in Invocations : TrampolineCall(t)
    \/ \E t \in Invocations : TrampolineOk(t)
    \/ \E t \in Invocations : TrampolineErr(t)
    \/ \E t \in Invocations : RewriteSyscallsCall(t)
    \/ \E t \in Invocations : RewriteSyscallsErr(t)
    \/ RewriteSyscallsBegin
    \/ \E ok1 \in BOOLEAN, ok2 \in BOOLEAN : RewriteSyscallsStep(ok1, ok2)
    \/ RewriteSyscallsEnd
    \/ \E t \in Invocations : ReportStats(t)

----------------------------------------------------------------------------
(* Process map parser: zpoline_rewriter/src/maps.rs *)

\* A text is a sequence of characters; a character is a one-character string,
\* and InvalidByte stands for a byte sequence that is not valid UTF-8.
InvalidByte == "<ff>"
HexChars == <<"0", "1", "2", "3", "4", "5", "6", "7", "8", "9",
              "a", "b", "c", "d", "e", "f">>
UpperHexChars == <<"A", "B", "C", "D", "E", "F">>

\* char::to_digit: the digit's value, or 36 for a character that is a digit
\* in no radix
DigitOf(c) ==
    IF \E i \in 1..16 : HexChars[i] = c
    THEN (CHOOSE i \in 1..16 : HexChars[i] = c) - 1
    ELSE IF \E i \in 1..6 : UpperHexChars[i] = c
    THEN (CHOOSE i \in 1..6 : UpperHexChars[i] = c) + 9
    ELSE 36

NoNumber == [ok |-> FALSE, val |-> 0]

\* the digit loop of from_str_radix, with its overflow check
RECURSIVE ParseDigits(_, _, _)
ParseDigits(s, radix, acc) ==
    IF s = <<>> THEN [ok |-> TRUE, val |-> acc]
    ELSE IF DigitOf(Head(s)) >= radix THEN NoNumber
    ELSE IF acc * radix + DigitOf(Head(s)) >= 2 ^ UsizeBits THEN NoNumber
    ELSE ParseDigits(Tail(s), radix, acc * radix + DigitOf(Head(s)))

\* a conversion that takes the digits it can and ignores the rest
from_str_radix_Lenient(s, radix) ==
    ParseDigits(SelectSeq(s, LAMBDA c : DigitOf(c) < radix), radix, 0)

\* usize::from_str_radix and u64::from_str_radix: an optional '+', then at
\* least one digit
from_str_radix(s, radix) ==
    IF s = <<>> THEN NoNumber
    ELSE LET digits == IF Head(s) = "+" THEN Tail(s) ELSE s IN
         IF digits = <<>> THEN NoNumber ELSE ParseDigits(digits, radix, 0)

\* an inode read as a hexadecimal number
parse_u64_Hex(s) == from_str_radix(s, 16)

\* str::parse::<u64>
parse_u64(s) == from_str_radix(s, 10)

\* str::split(sep): the pieces between the separators, empty ones included
RECURSIVE split(_, _)
split(s, sep) ==
    IF \A k \in 1..Len(s) : s[k] # sep THEN <<s>>
    ELSE LET k == CHOOSE i \in 1..Len(s) : s[i] = sep /\ \A j \in 1..(i - 1) : s[j] # sep
         IN <<SubSeq(s, 1, k - 1)>> \o split(SubSeq(s, k + 1, Len(s)), sep)

IsWhitespace(c) == c \in {" ", "\t"}

\* str::split_whitespace: the maximal runs of non-whitespace characters
RECURSIVE split_whitespace(_)
split_whitespace(s) ==
    IF s = <<>> THEN <<>>
    ELSE IF IsWhitespace(Head(s)) THEN split_whitespace(Tail(s))
    ELSE LET n == IF \E i \in 1..Len(s) : IsWhitespace(s[i])
                  THEN (CHOOSE i \in 1..Len(s) :
                           IsWhitespace(s[i]) /\ \A j \in 1..(i - 1) : ~IsWhitespace(s[j])) - 1
                  ELSE Len(s)
         IN <<SubSeq(s, 1, n)>> \o split_whitespace(SubSeq(s, n + 1, Len(s)))

\* [&str]::join(sep)
RECURSIVE join(_, _)
join(parts, sep) ==
    IF parts = <<>> THEN <<>>
    ELSE IF Len(parts) = 1 THEN parts[1]
    ELSE parts[1] \o <<sep>> \o join(Tail(parts), sep)

NoRegion == [some |-> FALSE]
NoText == [some |-> FALSE, text |-> <<>>]

\* parse_maps_line: Some(MemoryRegion) or None
parse_maps_line(line) ==
    LET parts == split_whitespace(line) IN
    IF parts = <<>> THEN NoRegion
    ELSE
    LET addr_parts == split(parts[1], "-") IN
    IF Len(addr_parts) # 2 THEN NoRegion
    ELSE
    LET start == from_str_radix(addr_parts[1], 16)
        end == from_str_radix(addr_parts[2], 16)
    IN
    IF ~start.ok \/ ~end.ok THEN NoRegion
    ELSE IF Len(parts) < 5 THEN NoRegion
    ELSE
    LET perms == parts[2] IN
    IF Len(perms) # 4 THEN NoRegion
    ELSE
    LET offset == from_str_radix(parts[3], 16)
        inode == parse_u64(parts[5])
    IN
    IF ~offset.ok THEN NoRegion
    ELSE IF ~inode.ok THEN NoRegion
    ELSE [some |-> TRUE,
          start |-> start.val,
          end |-> end.val,
          readable |-> perms[1] = "r",
          writable |-> perms[2] = "w",
          executable |-> perms[3] = "x",
          private |-> perms[4] = "p",
          offset |-> offset.val,
          device |-> parts[4],
          inode |-> inode.val,
          pathname |-> IF Len(parts) > 5
                       THEN [some |-> TRUE, text |-> join(SubSeq(parts, 6, Len(parts)), " ")]
                       ELSE NoText]

\* MemoryRegion::size, a usize subtraction: it wraps in a release build and
\* panics in a debug build when end < start
region_size(region) == (region.end - region.start) % (2 ^ UsizeBits)

\* BufRead::lines on a line: Err(InvalidData) when it is not valid UTF-8
IsUtf8(line) == \A k \in 1..Len(line) : line[k] # InvalidByte

\* parse_maps_file: File::open(path)?
MapsOpen(ok) ==
    /\ maps.pc = "closed"
    /\ maps' = [maps EXCEPT !.pc = IF ok THEN "reading" ELSE "failed",
                            !.cause = IF ok THEN "none" ELSE "open"]
    /\ UNCHANGED <<hookVars, rwVars, stubVars, initVars, dispVars>>

\* parse_maps_file: one turn of the loop over reader.lines(). The read may
\* fail; a line that is not valid UTF-8 is an error of the reader too.
MapsLine(readOk) ==
    /\ maps.pc = "reading"
    /\ maps.pos < Len(maps.table)
    /\ LET line == maps.table[maps.pos + 1] IN
       IF ~readOk THEN maps' = [maps EXCEPT !.pc = "failed", !.cause = "read"]
       ELSE IF ~IsUtf8(line) THEN maps' = [maps EXCEPT !.pc = "failed", !.cause = "utf8"]
       ELSE LET r == parse_maps_line(line) IN
            maps' = [maps EXCEPT !.pos = @ + 1,
                                 !.returned = Append(@, r),
                                 !.regions = IF r.some THEN Append(@, r) ELSE @]
    /\ UNCHANGED <<hookVars, rwVars, stubVars, initVars, dispVars>>

\* parse_maps_file: the table is at its end, Ok(regions)
MapsEnd ==
    /\ maps.pc = "reading"
    /\ maps.pos = Len(maps.table)
    /\ maps' = [maps EXCEPT !.pc = "done"]
    /\ UNCHANGED <<hookVars, rwVars, stubVars, initVars, dispVars>>

\* the number n written with at least w digits in the given radix, as the
\* kernel prints the table's numbers
RECURSIVE Digits(_, _)
Digits(n, radix) ==
    IF n < radix THEN <<HexChars[n + 1]>>
    ELSE Append(Digits(n \div radix, radix), HexChars[(n % radix) + 1])

Padded0(s, w) == [i \in 1..(w - Len(s)) |-> "0"] \o s

\* the fields of the table's lines: address ranges, permissions, paths
MapRanges == { <<PageSize, 2 * PageSize>>, <<0, 16 * PageSize>> }
MapPerms == { <<"r", "-", "x", "p">>, <<"r", "w", "-", "s">> }
MapDevice == <<"0", "8", ":", "0", "1">>
MapPaths == { <<>>, << <<"/", "a">> >>, << <<"/", "b">>, <<"(", "d", ")">> >> }

\* a line of the table as the kernel prints it; gap is the run of blanks
\* that pads the line before the pathname column
MapLine(addr, perms, offset, inode, path, gap) ==
    join(<<addr, perms, offset, MapDevice, inode>>, " ")
        \o (IF path = <<>> THEN <<>> ELSE [i \in 1..gap |-> " "] \o join(path, " "))

AddrText(range) == Digits(range[1], 16) \o <<"-">> \o Digits(range[2], 16)

\* the well-formed lines, each with the fields it was printed from
WellFormedLines ==
    { [text |-> MapLine(AddrText(r), p, Padded0(Digits(r[1], 16), 8),
                        Digits(IF path = <<>> THEN 0 ELSE 1234, 10), path, gap),
       range |-> r, perms |-> p, offset |-> r[1],
       inode |-> IF path = <<>> THEN 0 ELSE 1234, path |-> path] :
      r \in MapRanges, p \in MapPerms, path \in MapPaths, gap \in {1, 3} }

RX_P == <<"r", "-", "x", "p">>
APath == << <<"/", "a">> >>
Num0 == <<"0">>

\* lines that are not well-formed, each with what is wrong with it
MalformedLines ==
    { [text |-> <<>>, why |-> "blank"],
      [text |-> <<" ", "\t">>, why |-> "blank"],
      [text |-> MapLine(<<"1", "0">>, RX_P, Num0, Num0, APath, 1), why |-> "address shape"],
      [text |-> MapLine(<<"1", "-", "2", "-", "3">>, RX_P, Num0, Num0, APath, 1),
       why |-> "address shape"],
      [text |-> MapLine(<<"1", "g", "-", "2", "0">>, RX_P, Num0, Num0, APath, 1),
       why |-> "non-hex number"],
      [text |-> MapLine(<<"-", "2", "0">>, RX_P, Num0, Num0, APath, 1),
       why |-> "non-hex number"],
      [text |-> MapLine(<<"1", "0", "-", "2", "0">>, RX_P, <<"z">>, Num0, APath, 1),
       why |-> "non-hex number"],
      [text |-> <<"1", "0", "-", "2", "0", " ">> \o RX_P \o <<" ", "0", " ", "0">>,
       why |-> "fewer than five fields"],
      [text |-> MapLine(<<"1", "0", "-", "2", "0">>, <<"r", "-", "x">>, Num0, Num0, APath, 1),
       why |-> "permissions"],
      [text |-> MapLine(<<"1", "0", "-", "2", "0">>, RX_P \o <<"p">>, Num0, Num0, APath, 1),
       why |-> "permissions"],
      [text |-> MapLine(<<"1", "0", "-", "2", "0">>, RX_P, Num0, <<"1", "a">>, APath, 1),
       why |-> "inode"],
      [text |-> MapLine(<<"+", "1", "0", "-", "2", "0">>, RX_P, Num0, Num0, APath, 1),
       why |-> "non-hex number"] }

\* a well-formed line whose pathname is not valid UTF-8
Utf8Line ==
    MapLine(AddrText(<<PageSize, 2 * PageSize>>), RX_P, Num0, Num0,
            << <<"/", InvalidByte>> >>, 1)

\* lines with the shape of a map line and a range no mapping has
OddRangeLines ==
    { MapLine(AddrText(<<2 * PageSize, PageSize>>), RX_P, Num0, Num0, APath, 1),
      MapLine(AddrText(<<PageSize, PageSize>>), RX_P, Num0, Num0, APath, 1),
      MapLine(AddrText(<<PageSize + 1, 2 * PageSize>>), RX_P, Num0, Num0, APath, 1) }

\* the pathname `/a  b `: a run of two blanks inside it and a blank at its end
SpacedPath == <<"/", "a", " ", " ", "b", " ">>

\* a well-formed line of a file whose name is SpacedPath
SpacedPathLine ==
    MapLine(AddrText(<<PageSize, 2 * PageSize>>), RX_P, Num0, <<"7">>, <<>>, 1)
        \o <<" ">> \o SpacedPath

\* the lines a table of the model is made of
MapLines ==
    {l.text : l \in WellFormedLines} \cup {l.text : l \in MalformedLines}
        \cup {Utf8Line} \cup OddRangeLines \cup {SpacedPathLine}

\* parse_maps_file is called on a table of at most MaxLines lines
InitMaps ==
    \E t \in UNION {[1..n -> MapLines] : n \in 0..MaxLines} :
        maps = [pc |-> "closed", cause |-> "none", table |-> t, pos |-> 0,
                returned |-> <<>>, regions |-> <<>>]

\* the parser at rest, for the specifications of the other parts
MapsIdle ==
    maps = [pc |-> "closed", cause |-> "none", table |-> <<>>, pos |-> 0,
            returned |-> <<>>, regions |-> <<>>]

NextMaps ==
    \/ \E ok \in BOOLEAN : MapsOpen(ok)
    \/ \E readOk \in BOOLEAN : MapsLine(readOk)
    \/ MapsEnd

----------------------------------------------------------------------------
(* Trait dispatch: zpoline_hook_api/src/syscall_hooks.rs *)

\* A 64-bit value is the pair <<high, low>> of its 32-bit halves, each held
\* as an i32, so that the casts between 64-bit and 32-bit types are exact.
Zero64 == <<0, 0>>

\* `x as u64` for a c_int or pid_t x: sign extension
sign_extend(x) == <<IF x < 0 THEN -1 ELSE 0, x>>

\* `x as u64` for a c_uint or u32 x: zero extension
zero_extend(x) == <<0, x>>

\* `reg as T` in dispatch_syscall_hooks followed by `arg as u64` in the
\* default function, for T a 32-bit signed ("int"), a 32-bit unsigned
\* ("uint") or a 64-bit type or pointer ("long")
CastArg(type, w) ==
    CASE type = "int" -> sign_extend(w[2])
      [] type = "uint" -> zero_extend(w[2])
      [] type = "long" -> w

\* `raw_syscall(&mut regs) as T` in the default function followed by
\* `as i64` in dispatch_syscall_hooks
CastRet(type, k) ==
    CASE type = "int" -> sign_extend(k[2])
      [] type = "long" -> k

\* the argument registers in the order of the kernel ABI
ArgRegs == <<"rdi", "rsi", "rdx", "r10", "r8", "r9">>

\* One line per arm of dispatch_syscall_hooks: the types the registers are
\* cast to on the way to the trait method, and the return type of the method
\* ("never" for the two that return !).
HookTable ==
       0 :> [args |-> <<"int", "long", "long">>, ret |-> "long"]
    @@ 1 :> [args |-> <<"int", "long", "long">>, ret |-> "long"]
    @@ 2 :> [args |-> <<"long", "int", "uint">>, ret |-> "int"]
    @@ 3 :> [args |-> <<"int">>, ret |-> "int"]
    @@ 8 :> [args |-> <<"int", "long", "int">>, ret |-> "long"]
    @@ 9 :> [args |-> <<"long", "long", "int", "int", "int", "long">>, ret |-> "long"]
    @@ 10 :> [args |-> <<"long", "long", "int">>, ret |-> "int"]
    @@ 11 :> [args |-> <<"long", "long">>, ret |-> "int"]
    @@ 12 :> [args |-> <<"long">>, ret |-> "int"]
    @@ 16 :> [args |-> <<"int", "long", "long">>, ret |-> "int"]
    @@ 21 :> [args |-> <<"long", "int">>, ret |-> "int"]
    @@ 22 :> [args |-> <<"long">>, ret |-> "int"]
    @@ 32 :> [args |-> <<"int">>, ret |-> "int"]
    @@ 33 :> [args |-> <<"int", "int">>, ret |-> "int"]
    @@ 39 :> [args |-> <<>>, ret |-> "int"]
    @@ 41 :> [args |-> <<"int", "int", "int">>, ret |-> "int"]
    @@ 42 :> [args |-> <<"int", "long", "uint">>, ret |-> "int"]
    @@ 43 :> [args |-> <<"int", "long", "long">>, ret |-> "int"]
    @@ 49 :> [args |-> <<"int", "long", "uint">>, ret |-> "int"]
    @@ 50 :> [args |-> <<"int", "int">>, ret |-> "int"]
    @@ 57 :> [args |-> <<>>, ret |-> "int"]
    @@ 59 :> [args |-> <<"long", "long", "long">>, ret |-> "int"]
    @@ 60 :> [args |-> <<"int">>, ret |-> "never"]
    @@ 61 :> [args |-> <<"int", "long", "int", "long">>, ret |-> "int"]
    @@ 62 :> [args |-> <<"int", "int">>, ret |-> "int"]
    @@ 186 :> [args |-> <<>>, ret |-> "int"]
    @@ 231 :> [args |-> <<"int">>, ret |-> "never"]
    @@ 257 :> [args |-> <<"int", "long", "int", "uint">>, ret |-> "int"]

\* the record a default_* function builds: its number, its arguments, and
\* zero in every register it has no argument for
DefaultRegs(nr, args) ==
    LET arg(j) == IF j <= Len(args) THEN args[j] ELSE Zero64
    IN SyscallRegs(nr, arg(1), arg(2), arg(3), arg(4), arg(5), arg(6))

\* dispatch_syscall_hooks on an implementation that overrides no method: the
\* record handed to raw_syscall and the cast applied to what it returns
dispatch_syscall_hooks(regs) ==
    IF regs.rax \in DOMAIN HookTable
    THEN LET e == HookTable[regs.rax]
             passed == [j \in 1..Len(e.args) |-> CastArg(e.args[j], regs[ArgRegs[j]])]
         IN [regs |-> DefaultRegs(regs.rax, passed), ret |-> e.ret]
    ELSE [regs |-> regs, ret |-> "long"]

\* trait_based_hook: the lock on HOOK_TRAIT_OBJECT is poisoned, holds no
\* object, or holds the hooks
TraitBasedHook ==
    /\ disp.pc = "idle"
    /\ LET call == IF disp.guard = "hooks" THEN dispatch_syscall_hooks(disp.regs)
                   ELSE [regs |-> disp.regs, ret |-> "long"]
       IN disp' = [disp EXCEPT !.pc = "raw",
                               !.issued = Append(@, call.regs),
                               !.cast = call.ret]
    /\ UNCHANGED <<hookVars, rwVars, stubVars, initVars, mapsVars>>

\* values the kernel leaves in %rax: a small count or descriptor, -ENOENT,
\* and an address above 4 GiB
IntResults == { <<0, 3>>, sign_extend(-2) }
WideResults == IntResults \cup { <<21845, 21845 * 65536>> }

\* the syscalls of the model whose result is a length, an offset or an address
LongResultSyscalls == {0, 1, 8, 9, 12, 25}

RawResultsOf(nr) == IF nr \in LongResultSyscalls THEN WideResults ELSE IntResults

\* the kernel does not return from exit and exit_group
NeverReturns(nr) == nr \in {60, 231}

\* raw_syscall returns k (or does not return), and the hook returns
RawSyscallReturn(k) ==
    /\ disp.pc = "raw"
    /\ LET nr == disp.issued[Len(disp.issued)].rax IN
       /\ k \in RawResultsOf(nr)
       /\ disp' = IF NeverReturns(nr)
                  THEN [disp EXCEPT !.pc = "exited"]
                  ELSE [disp EXCEPT !.pc = "done",
                                    !.kernel = <<k>>,
                                    !.ret = <<CastRet(disp.cast, k)>>]
    /\ UNCHANGED <<hookVars, rwVars, stubVars, initVars, mapsVars>>

\* register values: a small one, one with bits above the low half, and one
\* whose low half has its top bit set
Words == { <<0, 3>>, <<1, 3>>, <<0, -1>> }

\* numbers outside the table: mremap and getuid
UntabledSyscalls == {25, 102}

\* trait_based_hook is entered with any record
InitDispatch ==
    \E nr \in DOMAIN HookTable \cup UntabledSyscalls,
       a \in Words, b \in Words, c \in Words, d \in Words,
       g \in {"poisoned", "empty", "hooks"} :
        disp = [pc |-> "idle", guard |-> g,
                regs |-> SyscallRegs(nr, a, b, c, d, d, d),
                issued |-> <<>>, cast |-> "none", kernel |-> <<>>, ret |-> <<>>]

DispIdle ==
    disp = [pc |-> "off", guard |-> "empty",
            regs |-> SyscallRegs(0, Zero64, Zero64, Zero64, Zero64, Zero64, Zero64),
            issued |-> <<>>, cast |-> "none", kernel |-> <<>>, ret |-> <<>>]

NextDispatch ==
    \/ TraitBasedHook
    \/ \E k \in WideResults : RawSyscallReturn(k)

----------------------------------------------------------------------------
(* Trait-based hooks under threads: zpoline_hook_api/src/lib.rs *)

\* the syscalls the application's threads issue: write, exit (which ends the
\* calling thread) and exit_group (which ends the process)
SYS_exit == 60
SYS_exit_group == 231
ThreadRecords ==
    { WriteRegs, SyscallRegs(SYS_exit, 0, 0, 0, 0, 0, 0),
      SyscallRegs(SYS_exit_group, 0, 0, 0, 0, 0, 0) }

\* trait_based_hook: HOOK_TRAIT_OBJECT.lock() returns once no thread holds
\* the mutex. No thread panics while it holds the lock, so the mutex is never
\* poisoned and lock() returns Ok.
TraitHookLock(t) ==
    /\ IsTop(t, "trait_based_hook", "start")
    /\ HOOK_TRAIT_OBJECT.holder = NoThread
    /\ HOOK_TRAIT_OBJECT' = [HOOK_TRAIT_OBJECT EXCEPT !.holder = t]
    /\ stack' = SetTop(t, [Top(t) EXCEPT !.pc = "locked"])
    /\ UNCHANGED <<HOOK_FUNCTION, IN_HOOK, HOOK_ENTRY_CALL_COUNT, calls, hookCalls,
                   rwVars, stubVars, initVars, mapsVars, dispVars>>

\* dispatch_syscall_hooks calls a method the implementation overrides, which
\* prints a line before it calls the default: the write goes through the
\* rewritten libc and enters hook_entry again
TraitHookMethodPrint(t) ==
    /\ IsTop(t, "trait_based_hook", "locked")
    /\ HOOK_TRAIT_OBJECT.value = "Some"
    /\ Depth(t) < MaxStack
    /\ stack' = [stack EXCEPT ![t] =
                    Push([@ EXCEPT ![Depth(t)].pc = "printed"],
                         Frame("hook_entry", "check", WriteRegs, IN_HOOK[t]))]
    /\ HOOK_ENTRY_CALL_COUNT' = HOOK_ENTRY_CALL_COUNT + 1
    /\ UNCHANGED <<HOOK_FUNCTION, IN_HOOK, calls, hookCalls, HOOK_TRAIT_OBJECT,
                   rwVars, stubVars, initVars, mapsVars, dispVars>>

\* the default method (or, with no object registered, trait_based_hook
\* itself) calls raw_syscall: exit ends the calling thread and exit_group the
\* process, both inside raw_syscall; any other syscall returns
TraitHookDefault(t) ==
    /\ Depth(t) > 1
    /\ Top(t).fn = "trait_based_hook"
    /\ Top(t).pc \in {"locked", "printed"}
    /\ LET nr == Below(t).regs.rax IN
        IF nr = SYS_exit
        THEN /\ stack' = SetTop(t, [Top(t) EXCEPT !.pc = "exited"])
             /\ UNCHANGED exit_status
        ELSE IF nr = SYS_exit_group
        THEN /\ stack' = SetTop(t, [Top(t) EXCEPT !.pc = "exited"])
             /\ exit_status' = exit(Below(t).regs.rdi)
        ELSE /\ \E k \in KernelResults :
                    stack' = SetTop(t, WithRaw(Top(t), Below(t).regs, k))
             /\ UNCHANGED exit_status
    /\ UNCHANGED <<HOOK_FUNCTION, IN_HOOK, HOOK_ENTRY_CALL_COUNT, calls, hookCalls,
                   HOOK_TRAIT_OBJECT, rwVars, stubVars, INIT_ONCE, invocation, stderr, hook_library,
                   mapsVars, dispVars>>

\* trait_based_hook returns: the guard goes out of scope and the mutex is
\* unlocked
TraitHookReturn(t) ==
    /\ IsTop(t, "trait_based_hook", "ret")
    /\ Depth(t) > 1
    /\ HOOK_TRAIT_OBJECT' = [HOOK_TRAIT_OBJECT EXCEPT !.holder = NoThread]
    /\ stack' = [stack EXCEPT ![t] =
                    [Pop(@) EXCEPT ![Depth(t) - 1].result = Top(t).result,
                                   ![Depth(t) - 1].pc = "clear"]]
    /\ UNCHANGED <<HOOK_FUNCTION, IN_HOOK, HOOK_ENTRY_CALL_COUNT, calls, hookCalls,
                   rwVars, stubVars, initVars, mapsVars, dispVars>>

\* what thread t does inside hook_entry, while the process lives
ThreadStep(t) ==
    /\ Alive
    /\ \/ HookEntryCheck(t)
       \/ HookEntryRaw(t)
       \/ HookEntryLoad(t)
       \/ HookEntryCall(t)
       \/ TraitHookLock(t)
       \/ TraitHookMethodPrint(t)
       \/ TraitHookDefault(t)
       \/ TraitHookReturn(t)
       \/ HookEntryClear(t)
       \/ HookEntryReturn(t)

\* the process after register_syscall_hooks: the object is in the mutex and
\* trait_based_hook in the hook slot
InitTrait ==
    /\ HOOK_FUNCTION = "trait_based_hook"
    /\ IN_HOOK = [t \in Threads |-> FALSE]
    /\ HOOK_ENTRY_CALL_COUNT = 0
    /\ stack = [t \in Threads |-> <<>>]
    /\ calls = [t \in Threads |-> 0]
    /\ hookCalls = [t \in Threads |-> 0]
    /\ HOOK_TRAIT_OBJECT = Mutex_new("Some")

NextTrait ==
    \/ \E t \in Threads, r \in ThreadRecords : Alive /\ AppSyscall(t, r)
    \/ \E t \in Threads : Alive /\ HookEntryCheck(t)
    \/ \E t \in Threads : Alive /\ HookEntryRaw(t)
    \/ \E t \in Threads : Alive /\ HookEntryLoad(t)
    \/ \E t \in Threads : Alive /\ HookEntryCall(t)
    \/ \E t \in Threads : Alive /\ TraitHookLock(t)
    \/ \E t \in Threads : Alive /\ TraitHookMethodPrint(t)
    \/ \E t \in Threads : Alive /\ TraitHookDefault(t)
    \/ \E t \in Threads : Alive /\ TraitHookReturn(t)
    \/ \E t \in Threads : Alive /\ HookEntryClear(t)
    \/ \E t \in Threads : Alive /\ HookEntryReturn(t)

----------------------------------------------------------------------------
(* Specifications *)

InitHook ==
    /\ HOOK_FUNCTION = "default_hook"
    /\ IN_HOOK = [t \in Threads |-> FALSE]
    /\ HOOK_ENTRY_CALL_COUNT = 0
    /\ stack = [t \in Threads |-> <<>>]
    /\ calls = [t \in Threads |-> 0]
    /\ hookCalls = [t \in Threads |-> 0]
    /\ HOOK_TRAIT_OBJECT = Mutex_new("None")

Init == InitHook /\ RwIdle /\ StubIdle /\ LoaderIdle /\ MapsIdle /\ DispIdle

Next ==
    \/ \E t \in Threads, r \in AppRecords : AppSyscall(t, r)
    \/ \E t \in Threads : HookEntryCheck(t)
    \/ \E t \in Threads : HookEntryRaw(t)
    \/ \E t \in Threads : HookEntryLoad(t)
    \/ \E t \in Threads : HookEntryCall(t)
    \/ \E t \in Threads : DefaultHook(t)
    \/ \E t \in Threads : TestHook(t)
    \/ \E t \in Threads : TraceHookPrint(t)
    \/ \E t \in Threads : TraceHookRaw(t)
    \/ \E t \in Threads : HookReturn(t)
    \/ \E t \in Threads : HookEntryClear(t)
    \/ \E t \in Threads : HookEntryReturn(t)
    \/ \E f \in HookFns : HookInit(f)

Spec == Init /\ [][Next]_vars

InitSpecRewrite == InitRewrite /\ InitHook /\ StubIdle /\ LoaderIdle /\ MapsIdle /\ DispIdle

SpecRewrite == InitSpecRewrite /\ [][NextRewrite]_vars

InitSpecRewriterOps == InitRewrite /\ InitHook /\ StubIdle /\ LoaderIdle /\ MapsIdle /\ DispIdle

SpecRewriterOps == InitSpecRewriterOps /\ [][NextRewriterOps]_vars

InitSpecBoot == InitBoot /\ InitHook /\ StubIdle /\ LoaderIdle /\ MapsIdle /\ DispIdle

SpecBoot == InitSpecBoot /\ [][NextBoot]_vars

InitSpecStub == InitStub /\ InitHook /\ RwIdle /\ LoaderIdle /\ MapsIdle /\ DispIdle

SpecStub == InitSpecStub /\ [][NextStub]_vars

\* a processor that can execute its next instruction does execute it
SpecStubFair == SpecStub /\ WF_cpu(CpuStep)

\* the process at load time: the map parse_proc_maps will return, with
\* raw_syscall_impl at the start of the loader's text, nothing mapped at
\* address 0, rewrite_syscalls not called yet
InitSpecInit ==
    /\ ProcessMap
    /\ layout.raw_syscall = LoaderBase
    /\ mem[3] = Padded(<<ESCAPE_0F, SYSCALL_05>>)
    /\ boot = NoBoot
    /\ InitHook
    /\ InitStub
    /\ InitLoader
    /\ MapsIdle /\ DispIdle

SpecInit == InitSpecInit /\ [][NextInit]_vars

\* the steps of zpoline_init outside the loop over the regions
InitThreadStep ==
    \/ \E t \in Invocations : ZpolineInit(t)
    \/ \E t \in Invocations : OnceWake(t)
    \/ \E t \in Invocations : TrampolineCall(t)
    \/ \E t \in Invocations : TrampolineOk(t)
    \/ \E t \in Invocations : TrampolineErr(t)
    \/ \E t \in Invocations : RewriteSyscallsCall(t)
    \/ \E t \in Invocations : RewriteSyscallsErr(t)
    \/ RewriteSyscallsBegin
    \/ RewriteSyscallsEnd
    \/ \E t \in Invocations : ReportStats(t)

\* the guard of the loop body of rewrite_syscalls
InLoop == boot.pc = "loop" /\ boot.idx <= Len(regions)

LoopStep == \E ok1 \in BOOLEAN, ok2 \in BOOLEAN : RewriteSyscallsStep(ok1, ok2)

\* the process at load time with any of the hook libraries designated
InitSpecInitHookLibrary ==
    /\ ProcessMap
    /\ layout.raw_syscall = LoaderBase
    /\ mem[3] = Padded(<<ESCAPE_0F, SYSCALL_05>>)
    /\ boot = NoBoot
    /\ InitHook
    /\ InitStub
    /\ INIT_ONCE = "incomplete"
    /\ invocation = [t \in Invocations |-> "idle"]
    /\ stderr = <<>>
    /\ exit_status = NotExited
    /\ hook_library \in HookLibraries
    /\ MapsIdle /\ DispIdle

SpecInitHookLibrary == InitSpecInitHookLibrary /\ [][NextInit]_vars

\* the threads that run the initializer keep running: a step outside the loop
\* that stays possible is taken, and so is a turn of the loop
SpecInitFair ==
    /\ SpecInit
    /\ WF_vars(InitThreadStep)
    /\ ([]<>~InLoop \/ []<><<LoopStep>>_vars)

InitSpecMaps == InitMaps /\ InitHook /\ RwIdle /\ StubIdle /\ LoaderIdle /\ DispIdle

SpecMaps == InitSpecMaps /\ [][NextMaps]_vars

InitSpecDispatch ==
    InitDispatch /\ InitHook /\ RwIdle /\ StubIdle /\ LoaderIdle /\ MapsIdle

SpecDispatch == InitSpecDispatch /\ [][NextDispatch]_vars

InitSpecTrait == InitTrait /\ RwIdle /\ StubIdle /\ LoaderIdle /\ MapsIdle /\ DispIdle

SpecTrait == InitSpecTrait /\ [][NextTrait]_vars

\* every thread of a live process keeps executing, and the kernel answers
\* the syscalls that return
SpecTraitFair == SpecTrait /\ \A t \in Threads : WF_vars(ThreadStep(t))

----------------------------------------------------------------------------
(* Claims about the hook runtime, checked under Spec *)

Frames(t) == {stack[t][i] : i \in 1..Depth(t)}
HookEntryFrames(t) == {f \in Frames(t) : f.fn = "hook_entry"}
\* user-hook invocations active on thread t's stack
UserHookDepth(t) == Cardinality({i \in 1..Depth(t) : stack[t][i].fn \in HookFns})

\* C1: in every thread at most one user-hook invocation is active at a time; a
\* hook_entry call entered with the thread's flag set never loads or calls the
\* hook; and every outer syscall that has returned invoked the hook exactly
\* once, also when the hook itself issued a syscall.
C1_ReentrancyBound ==
    \A t \in Threads :
        /\ UserHookDepth(t) <= 1
        /\ \A f \in HookEntryFrames(t) :
              f.entryFlag => f.hook_fn = NoHook /\ f.pc \in {"check", "raw", "ret"}
        /\ hookCalls[t] <= calls[t]
        /\ Depth(t) = 0 => hookCalls[t] = calls[t]

\* the write of trace_hook's eprintln! came back through the raw path
C1_Witness ==
    \E t \in Threads :
        /\ Depth(t) = 3
        /\ stack[t][2].fn = "trace_hook"
        /\ stack[t][3].fn = "hook_entry" /\ stack[t][3].entryFlag
        /\ stack[t][3].pc = "ret"
        /\ hookCalls[t] = 1

\* C2: a hook_entry call entered with the flag set, when it returns, has issued
\* exactly one raw syscall, with the record's rax as number and rdi, rsi, rdx,
\* r10, r8, r9 as arguments, returns the kernel's answer, and has neither loaded
\* nor called the hook pointer.
C2_ReentrantRawPath ==
    \A t \in Threads : \A f \in HookEntryFrames(t) :
        f.entryFlag =>
            /\ f.hook_fn = NoHook
            /\ f.pc \in {"check", "raw", "ret"}
            /\ f.pc # "ret" => f.raw = <<>>
            /\ f.pc = "ret" =>
                /\ Len(f.raw) = 1
                /\ f.raw[1].req.rax = f.regs.rax
                /\ f.raw[1].req.rdi = f.regs.rdi
                /\ f.raw[1].req.rsi = f.regs.rsi
                /\ f.raw[1].req.rdx = f.regs.rdx
                /\ f.raw[1].req.r10 = f.regs.r10
                /\ f.raw[1].req.r8 = f.regs.r8
                /\ f.raw[1].req.r9 = f.regs.r9
                /\ f.result = f.raw[1].res

\* a reentrant call is about to return the kernel's error answer
C2_Witness ==
    \E t \in Threads : \E f \in HookEntryFrames(t) :
        f.entryFlag /\ f.pc = "ret" /\ f.result = -9 /\ f.regs = WriteRegs

\* C3: the flag is false while the thread is outside hook_entry, true while the
\* user hook runs, false again when a non-reentrant hook_entry call returns,
\* and still set when a reentrant call returns.
C3_FlagStateMachine ==
    \A t \in Threads :
        /\ Depth(t) = 0 => ~IN_HOOK[t]
        /\ UserHookDepth(t) >= 1 => IN_HOOK[t]
        /\ \A f \in HookEntryFrames(t) : f.pc = "ret" => (IN_HOOK[t] <=> f.entryFlag)

\* a non-reentrant call whose hook issued a reentrant syscall is about to
\* return, the flag cleared
C3_Witness ==
    \E t \in Threads :
        /\ Depth(t) = 1
        /\ Top(t).pc = "ret" /\ ~Top(t).entryFlag /\ Top(t).hook_fn = "trace_hook"
        /\ ~IN_HOOK[t]
        /\ HOOK_ENTRY_CALL_COUNT >= 2

----------------------------------------------------------------------------
(* Claims about rewrite_region, checked under SpecRewrite *)

\* the two bytes at offset off of region i
SiteBytes(i, off) == <<mem[i][off + 1], mem[i][off + 2]>>

\* a rewrite_region call has just returned Ok on an executable region that
\* is not excluded, with dry-run off
RewroteForReal ==
    /\ last.idx # 0
    /\ last.ret.ok
    /\ ~config.dry_run
    /\ is_executable(regions[last.idx])
    /\ ~is_excluded(config, regions[last.idx])

\* C4: after a successful rewrite_region (dry-run off) on an executable region
\* that is not excluded, every site the scanner reported reads FF D0, and none
\* reads 0F 05 or 0F 34.
C4_ReplacementFidelity ==
    RewroteForReal =>
        \A k \in 1..Len(last.sites) :
            /\ SiteBytes(last.idx, last.sites[k].offset) = <<CALL_FF, CALL_D0>>
            /\ SiteBytes(last.idx, last.sites[k].offset) # <<ESCAPE_0F, SYSCALL_05>>
            /\ SiteBytes(last.idx, last.sites[k].offset) # <<ESCAPE_0F, SYSENTER_34>>

\* the region's pathname begins with an excluded path, component by component,
\* or its address range overlaps an excluded range
MatchesExcludeSet(cfg, region) ==
    \/ /\ region.pathname.some
       /\ \E e \in cfg.exclude_paths :
             /\ Len(e) <= Len(region.pathname.path)
             /\ \A j \in 1..Len(e) : region.pathname.path[j] = e[j]
    \/ \E k \in 1..Len(cfg.exclude_ranges) :
          \E a \in region.start..(region.end - 1) :
              cfg.exclude_ranges[k][1] <= a /\ a < cfg.exclude_ranges[k][2]

----------------------------------------------------------------------------
(* Claims about bootstrap rewriting, checked under SpecBoot *)

\* the region of the process map that holds address a
RegionOf(a) == CHOOSE i \in 1..Len(regions) : regions[i].start <= a /\ a < regions[i].end
\* the byte at address a
ByteAt(a) == mem[RegionOf(a)][a - regions[RegionOf(a)].start + 1]

\* C6: the syscall instruction of raw_syscall_impl reads 0F 05 throughout and
\* after bootstrap rewriting: once the configuration is built, the region that
\* holds it overlaps an excluded range that starts at raw_syscall's address,
\* and rewrite_region never writes into it.
C6_RawPathIntact ==
    /\ <<ByteAt(layout.syscall_insn), ByteAt(layout.syscall_insn + 1)>>
           = <<ESCAPE_0F, SYSCALL_05>>
    /\ boot.pc \in {"loop", "done"} =>
          \E k \in 1..Len(config.exclude_ranges) :
              /\ config.exclude_ranges[k][1] = layout.raw_syscall
              /\ regions[RegionOf(layout.syscall_insn)].start < config.exclude_ranges[k][2]
              /\ regions[RegionOf(layout.syscall_insn)].end > config.exclude_ranges[k][1]
    /\ \A e \in 1..Len(last.events) :
          last.events[e].op = "write" => RegionOf(last.events[e].addr) # RegionOf(layout.syscall_insn)

\* bootstrap is over, the application's text was rewritten, and the loader's
\* text, which no excluded path covers, was skipped
C6_Witness ==
    /\ boot.pc = "done"
    /\ layout.exe_parent.path # LoaderDir
    /\ ~layout.env.some
    /\ stats.regions_rewritten = 1
    /\ stats.regions_skipped = 2
    /\ ByteAt(layout.syscall_insn) = ESCAPE_0F
    /\ ByteAt(layout.syscall_insn + 1) = SYSCALL_05

RestoredRegs == {"rdi", "rsi", "rdx", "r10", "r8", "r9"}

\* C7: once the stub has returned to the caller of the rewritten site, each of
\* rdi, rsi, rdx, r10, r8, r9 holds what the record's field of that name held
\* when hook_entry returned; if the hook left the record as it found it, each
\* holds the value it had when the stub was entered.
C7_RestoreFromRecord ==
    phase = "returned" =>
        /\ hook.called
        /\ \A f \in RestoredRegs : cpu[f] = hook.atReturn[f]
        /\ hook.atReturn = hook.atCall =>
                \A f \in RestoredRegs : cpu[f] = entry.cpu[f]

\* the hook changed the record's rdi and used the caller-saved registers, and
\* the caller sees the record's rdi
C7_Witness ==
    /\ phase = "returned"
    /\ hook.atReturn.rdi = 91
    /\ hook.atCall.rdi = 31
    /\ cpu.rdi = 91
    /\ cpu.rcx = 77

\* C8: from the return of hook_entry to the stub's ret and after it, rax holds
\* the value hook_entry returned; what the hook stored in the record's rax
\* field is not what the caller sees.
C8_ReturnValue ==
    (hook.called /\ phase \in {"run", "returned"}) => cpu.rax = hook.ret

\* the hook stored 92 in the record's rax field and returned -9
C8_Witness ==
    /\ phase = "returned"
    /\ hook.atReturn.rax = 92
    /\ hook.ret = -9
    /\ cpu.rax = -9

AtHookEntry == phase = "run" /\ cpu.rip = HookEntryAddr

\* C9: when control reaches hook_entry, rdi is the address of seven
\* consecutive 8-byte slots, at offsets 0, 8, ..., 48, holding the values rax,
\* rdi, rsi, rdx, r10, r8, r9 had when the stub was entered; the 56 bytes end
\* where the return address pushed by the rewritten site begins.
C9_RecordLayout ==
    AtHookEntry =>
        /\ \A i \in 1..7 :
              /\ cpu.rdi + 8 * (i - 1) \in DOMAIN smem
              /\ smem[cpu.rdi + 8 * (i - 1)] = entry.cpu[SyscallRegsFields[i]]
        /\ cpu.rdi + 56 = entry.cpu.rsp

\* the stub, entered for syscall 39, is about to run hook_entry
C9_Witness ==
    /\ AtHookEntry
    /\ entry.cpu.rax = 39
    /\ smem[cpu.rdi] = 39
    /\ smem[cpu.rdi + 8] = 31

InSled == phase = "run" /\ ~hook.called /\ cpu.rip < MAX_SYSCALL_NR

ArrivedUnchanged ==
    /\ phase = "run"
    /\ cpu.rip = MAX_SYSCALL_NR
    /\ \A r \in DOMAIN cpu : r # "rip" => cpu[r] = entry.cpu[r]
    /\ smem = entry.smem

NopSled == [n \in 1..MAX_SYSCALL_NR |-> 144]

SledIsNops ==
    phase # "unmapped" => SubSeq(tramp, 1, MAX_SYSCALL_NR) = NopSled

SledStep ==
    InSled =>
        /\ TByte(cpu.rip) = 144
        /\ cpu'.rip = cpu.rip + 1
        /\ \A r \in DOMAIN cpu : r # "rip" => cpu'[r] = cpu[r]
        /\ smem' = smem

\* C10: once the trampoline is built, bytes 0..511 are all 0x90; execution
\* that starts at any offset of the sled executes one-byte NOPs only, each
\* changing nothing but rip, and reaches offset 512, the stub's first
\* instruction, with the registers and the stack as they were on entry.
C10_SledSlides ==
    /\ []SledIsNops
    /\ [][SledStep]_vars
    /\ InSled ~> ArrivedUnchanged

\* entered at offset 0, execution is at the stub's first instruction
C10_Witness ==
    /\ ArrivedUnchanged
    /\ entry.cpu.rip = 0
    /\ ~hook.called
    /\ tramp[1] = 144

\* the address of the stub's `call r11`
CallR11Addr ==
    MAX_SYSCALL_NR + Len(StubSave) + Len(StubAlign) + Len(StubArg)
        + Len(StubTarget(HookEntryAddr))

\* the processor is about to execute the stub's `call r11`
AtCallR11 ==
    /\ phase = "run"
    /\ cpu.rip = CallR11Addr
    /\ <<TByte(cpu.rip), TByte(cpu.rip + 1), TByte(cpu.rip + 2)>> = StubCall

\* C35: when the stack pointer was a multiple of 16 just before the rewritten
\* `callq *%rax` (8 bytes above its value on entry to the trampoline), it is a
\* multiple of 16 when the stub executes `call r11`.
C35_AlignedAtCall ==
    (AtCallR11 /\ (entry.cpu.rsp + 8) % 16 = 0) => cpu.rsp % 16 = 0

\* the address of the stub's `ret`
StubRetAddr ==
    CallR11Addr + Len(StubCall) + Len(StubUnalign) + Len(StubSkipRax) + Len(StubRestore)

\* hook_entry has returned and the processor is about to execute the stub's
\* `ret`
AtStubRet ==
    /\ phase = "run"
    /\ hook.called
    /\ cpu.rip = StubRetAddr
    /\ TByte(cpu.rip) = 195

\* the stack slots at and above the stack pointer the application had before
\* the rewritten site hold what they held then
StackAboveKept ==
    \A a \in DOMAIN smem : a >= entry.cpu.rsp + 8 => smem[a] = entry.smem[a]

\* C36: at the stub's `ret` the stack pointer is where the rewritten site
\* pushed its return address, and that slot still holds the address of the
\* instruction after the site; once control is back there, the stack pointer
\* has the value it had before the site and the stack from there up is as it
\* was.
C36_StackBalanced ==
    /\ AtStubRet =>
          /\ cpu.rsp = entry.cpu.rsp
          /\ Load(smem, cpu.rsp) = AppReturn
          /\ StackAboveKept
    /\ phase = "returned" =>
          /\ cpu.rip = AppReturn
          /\ cpu.rsp = entry.cpu.rsp + 8
          /\ cpu.rsp = AppRegs.rsp
          /\ StackAboveKept

\* control is back after the site, the hook having changed the record it was
\* given and the caller-saved registers
C36_Witness ==
    /\ phase = "returned"
    /\ hook.called
    /\ hook.atReturn # hook.atCall
    /\ hook.rsp = AppRegs.rsp - 80
    /\ cpu.rcx = 77
    /\ cpu.rsp = StackTop

----------------------------------------------------------------------------
(* Claims about repeated rewriting and the rewritten bytes, under SpecRewrite *)

\* this step is a rewrite_region call on the region the previous call was on
SecondCall ==
    /\ last.idx # 0
    /\ stats'.regions_scanned # stats.regions_scanned
    /\ last'.idx = last.idx

\* this step replaces nothing: no byte changes and no success counter grows
ReplacesNothing ==
    /\ mem' = mem
    /\ stats'.syscalls_replaced = stats.syscalls_replaced
    /\ stats'.sysenters_replaced = stats.sysenters_replaced
    /\ stats'.regions_rewritten = stats.regions_rewritten

\* C11 as the specification states it: whatever the first call did, the second
\* call on the same region returns 0, changes no byte and adds nothing to
\* syscalls_replaced, sysenters_replaced or regions_rewritten.
C11_SecondCallZero ==
    [][ SecondCall => (last'.ret = Ok(0) /\ ReplacesNothing) ]_vars

\* C11: with dry-run off, after a rewrite_region call that returned Ok, the
\* next call on the same region replaces nothing: it changes no byte, adds
\* nothing to syscalls_replaced, sysenters_replaced or regions_rewritten, and
\* if it returns Ok it returns 0.
C11_Idempotent ==
    [][ (SecondCall /\ ~config.dry_run /\ last.ret.ok)
        => (ReplacesNothing /\ (last'.ret.ok => last'.ret = Ok(0))) ]_vars

\* the first call replaced the region's two sites, the second found none
C11_Witness ==
    /\ stats.regions_scanned = 2
    /\ stats.regions_rewritten = 1
    /\ stats.syscalls_replaced + stats.sysenters_replaced = 2
    /\ ~config.dry_run
    /\ last.sites = <<>>
    /\ last.ret = Ok(0)
    /\ SiteBytes(1, 0) = <<CALL_FF, CALL_D0>>

\* C12: after a successful rewrite_region with dry-run off on an executable
\* region that is not excluded, the scanner run over the region's bytes finds
\* no syscall and no sysenter site.
C12_RescanFindsNothing ==
    RewroteForReal =>
        find_syscalls(regions[last.idx].start, mem[last.idx]) = <<>>

\* the offsets at which the decoder, run from the start of code, begins an
\* instruction
RECURSIVE InstrStarts(_, _)
InstrStarts(code, pos) ==
    IF pos >= Len(code) THEN {}
    ELSE {pos} \cup InstrStarts(code, pos + decode(code, 0, pos).len)

\* the byte offsets of the region that belong to a site reported by the call
SiteOffsets(sites) ==
    UNION { {sites[k].offset, sites[k].offset + 1} : k \in 1..Len(sites) }

\* this step is a rewrite_region call
IsRewriteCall == stats'.regions_scanned # stats.regions_scanned

\* C13: a rewrite_region call writes exactly two bytes per site it patches, at
\* the site's offset and the next; every byte outside the reported sites keeps
\* its value; the region keeps its length, and every instruction keeps the
\* offset it started at.
C13_FrameEffect ==
    [][ IsRewriteCall =>
        LET i == last'.idx
            writes == { e \in 1..Len(last'.events) : last'.events[e].op = "write" }
        IN /\ Len(mem'[i]) = Len(mem[i])
           /\ \A j \in 1..Len(mem) : j # i => mem'[j] = mem[j]
           /\ \A b \in 1..Len(mem[i]) :
                 mem'[i][b] # mem[i][b] => (b - 1) \in SiteOffsets(last'.sites)
           /\ \A e \in writes :
                 /\ last'.events[e].len = 2
                 /\ \E k \in 1..Len(last'.sites) :
                       last'.events[e].addr = regions[i].start + last'.sites[k].offset
           /\ (last'.ret.ok /\ ~config.dry_run) => Cardinality(writes) = last'.ret.count
           /\ Cardinality({ b \in 1..Len(mem[i]) : mem'[i][b] # mem[i][b] })
                 = 2 * Cardinality(writes)
           /\ InstrStarts(mem'[i], 0) = InstrStarts(mem[i], 0) ]_vars

\* a call patched a syscall that follows a seven-byte mov: the mov's bytes and
\* the padding are as before
C13_Witness ==
    /\ last.idx = 1
    /\ last.ret = Ok(1)
    /\ last.sites = << [offset |-> 7, type |-> "Syscall"] >>
    /\ SubSeq(mem[1], 1, 7) = <<72, 199, 192, 1, 0, 0, 0>>
    /\ SiteBytes(1, 7) = <<CALL_FF, CALL_D0>>
    /\ mem[1][10] = 144

----------------------------------------------------------------------------
(* Claims about threads and the hook slot, checked under Spec *)

\* a hook_entry call entered with the thread's flag false takes the hook path
OwnFlagDecides ==
    \A t \in Threads : \A f \in HookEntryFrames(t) :
        (~f.entryFlag /\ f.pc # "check") =>
            /\ ~f.reentrant
            /\ f.pc \in {"load", "call", "wait", "clear", "ret"}
            /\ f.pc \in {"wait", "clear", "ret"} => f.hook_fn \in HookFns
            /\ f.raw = <<>>

\* a thread that has not entered hook_entry yet has its flag false
FreshThreadIdle ==
    \A t \in Threads : (calls[t] = 0 /\ Depth(t) = 0) => ~IN_HOOK[t]

\* a step that changes a thread's flag is a step of that thread, and changes
\* no other thread's flag
FlagStepIsLocal ==
    \A t \in Threads :
        IN_HOOK'[t] # IN_HOOK[t] =>
            /\ stack'[t] # stack[t]
            /\ \A u \in Threads \ {t} : IN_HOOK'[u] = IN_HOOK[u] /\ stack'[u] = stack[u]

\* C14: the reentrancy flag is per thread. A hook_entry call entered with its
\* own thread's flag false takes the hook path and invokes the user hook,
\* whatever the other threads are doing; a step that sets or clears a thread's
\* flag changes no other thread's flag; a thread that has not entered
\* hook_entry yet has its flag false.
C14_FlagPerThread ==
    /\ [](OwnFlagDecides /\ FreshThreadIdle)
    /\ [][FlagStepIsLocal]_vars

\* both threads are inside their user hooks at once
C14_Witness ==
    /\ \A t \in Threads :
          /\ Depth(t) = 2
          /\ stack[t][1].fn = "hook_entry" /\ ~stack[t][1].entryFlag
          /\ stack[t][2].fn \in HookFns
          /\ IN_HOOK[t]

----------------------------------------------------------------------------
\* C15: a hook_entry call entered with the flag false, on any thread, whose
\* slot on entry held the pointer f of a completed __hook_init (or the initial
\* one) and that saw no other __hook_init before its load, loads f and calls f:
\* never an older pointer or one that was never stored.
Published(f) == f.fn = "hook_entry" /\ ~f.entryFlag /\ f.published # NoHook

LoadsPublished ==
    \A t \in Threads : \A i \in 1..Depth(t) :
        LET f == stack[t][i] IN
        Published(f) =>
            /\ f.published \in HookFns
            /\ f.pc \in {"check", "load"} => f.published = HOOK_FUNCTION
            /\ f.pc = "call" => f.hook_fn = f.published

CallsPublished ==
    \A t \in Threads :
        (/\ IsTop(t, "hook_entry", "call")
         /\ Published(Top(t))
         /\ stack'[t] # stack[t]) =>
            /\ Len(stack'[t]) = Depth(t) + 1
            /\ stack'[t][Depth(t)].pc = "wait"
            /\ stack'[t][Depth(t) + 1].fn = Top(t).published
            /\ stack'[t][Depth(t) + 1].pc = "start"

C15_PublishedHookRuns == []LoadsPublished /\ [][CallsPublished]_vars

\* both threads have loaded the hook that was published before they entered
\* and are about to call it; the slot has been given another hook since
C15_Witness ==
    /\ \A t \in Threads :
          /\ IsTop(t, "hook_entry", "call")
          /\ Published(Top(t))
          /\ Top(t).published = "trace_hook"
    /\ HOOK_FUNCTION = "test_hook"

----------------------------------------------------------------------------
\* C16: after __hook_init(f), get_hook_fn() returns f: the slot holds the
\* pointer stored last, nothing but __hook_init changes it, and calling the
\* returned pointer on a record runs f on that record and gives f's result
\* (42 for the test's test_hook).
InitThenGet ==
    /\ \A f \in HookFns : HookInit(f) => get_hook_fn' = f
    /\ get_hook_fn' # get_hook_fn => \E f \in HookFns : HookInit(f)

BehavesAsLoaded ==
    \A t \in Threads : \A i \in 1..Depth(t) :
        LET f == stack[t][i] IN
        (f.fn = "hook_entry" /\ f.hook_fn # NoHook) =>
            /\ f.hook_fn \in HookFns
            /\ f.pc = "wait" =>
                  /\ stack[t][i + 1].fn = f.hook_fn
                  /\ stack[t][i + 1].regs = f.regs
            /\ (f.pc \in {"clear", "ret"} /\ f.hook_fn = "test_hook") =>
                  f.result = TestHookResult /\ f.raw = <<>>

C16_GetReturnsPublished == [][InitThenGet]_vars /\ []BehavesAsLoaded

\* test_hook was stored last, a call loaded it and got 42 from it
C16_Witness ==
    /\ get_hook_fn = "test_hook"
    /\ \E t \in Threads :
          /\ IsTop(t, "hook_entry", "clear")
          /\ Top(t).hook_fn = "test_hook"
          /\ Top(t).result = TestHookResult

----------------------------------------------------------------------------
\* C17: the slot starts with default_hook, the identity hook. A hook_entry
\* call entered with the flag false that loaded default_hook performs exactly
\* one raw syscall, on the record as it was passed in, and returns the
\* kernel's result for it.
ViaDefault(f) == f.fn = "hook_entry" /\ ~f.entryFlag /\ f.hook_fn = "default_hook"

DefaultIsIdentity ==
    \A t \in Threads : \A i \in 1..Depth(t) :
        LET f == stack[t][i] IN
        ViaDefault(f) =>
            /\ f.raw = <<>>
            /\ f.pc \in {"call", "wait", "clear", "ret"}
            /\ f.pc = "wait" =>
                  LET g == stack[t][i + 1] IN
                  /\ Depth(t) = i + 1
                  /\ g.fn = "default_hook"
                  /\ g.pc \in {"start", "ret"}
                  /\ g.pc = "start" => g.raw = <<>>
                  /\ g.pc = "ret" =>
                        /\ Len(g.raw) = 1
                        /\ g.raw[1].req = raw_syscall(f.regs)
                        /\ g.raw[1].res \in KernelResults
                        /\ g.result = g.raw[1].res
            /\ f.pc \in {"clear", "ret"} => Depth(t) = i /\ f.result \in KernelResults

DefaultResultReturned ==
    \A t \in Threads :
        (/\ Depth(t) = 2
         /\ ViaDefault(stack[t][1])
         /\ stack[t][1].pc = "wait"
         /\ Len(stack'[t]) = 1) =>
            /\ stack'[t][1].result = stack[t][2].raw[1].res
            /\ stack'[t][1].regs = stack[t][1].regs

C17_DefaultIdentity ==
    /\ HOOK_FUNCTION = "default_hook"
    /\ []DefaultIsIdentity
    /\ [][DefaultResultReturned]_vars

\* a call through the default hook is about to return the kernel's error
C17_Witness ==
    /\ HOOK_FUNCTION = "default_hook"
    /\ \E t \in Threads :
          /\ IsTop(t, "hook_entry", "ret")
          /\ ViaDefault(Top(t))
          /\ Top(t).result = -9
          /\ hookCalls[t] = 1

----------------------------------------------------------------------------
(* Claims about the load-time initializer, checked under SpecInit *)

\* rewrite_syscalls has been entered, or some region was scanned or patched
RewritingBegun == boot.pc # "none" \/ stats.regions_scanned > 0 \/ last # NoCall

\* setup_trampoline has mapped and filled the trampoline
TrampolineBuilt ==
    /\ phase = "ready"
    /\ tramp = generate_trampoline_code([i \in 1..(MAX_SYSCALL_NR + StubRoom) |-> 0],
                                        HookEntryAddr)

\* the report's line and the statistics it shows
Reported == HasLine("Code rewriting completed")
ReportedStats == { stderr[k].stats : k \in {j \in 1..Len(stderr) :
                                               stderr[j].text = "Code rewriting completed"} }

BootstrapOrder ==
    /\ RewritingBegun => TrampolineBuilt /\ HasLine("Trampoline setup successful")
    /\ HasLine("ERROR: Failed to setup trampoline") =>
          /\ exit_status.exited
          /\ exit_status.code # 0
          /\ ~RewritingBegun
          /\ ~Reported
    /\ Reported =>
          /\ boot.pc = "done"
          /\ boot.idx > Len(regions)
          /\ ReportedStats = {stats}

\* C18: bootstrap in order. No region is scanned or patched before
\* setup_trampoline has succeeded; when setup_trampoline fails the diagnostic
\* is written, the process exits with a nonzero status, and nothing happens
\* after the exit, so no region is ever patched; the statistics are reported
\* only once the loop over all regions is over, and are the final ones.
C18_BootstrapOrder == []BootstrapOrder /\ [][Alive]_vars

\* the report is out after a run that patched the application's text
C18_Witness ==
    /\ Reported
    /\ TrampolineBuilt
    /\ stats.regions_rewritten = 1
    /\ stats.syscalls_replaced = 1
    /\ Alive

\* C19: the closure of zpoline_init runs at most once per process, however
\* many invocations there are and however they interleave: it is entered at
\* most once, at most one invocation is inside it, setup_trampoline and
\* rewrite_syscalls are each left (with Ok or Err) at most once, and an
\* invocation has returned only when the one run is over.
InBody == {t \in Invocations : invocation[t] \in {"body", "rewrite"}}

C19_BodyRunsOnce ==
    /\ CountLines("Initializing zpoline-rs") <= 1
    /\ Cardinality(InBody) <= 1
    /\ InBody # {} => INIT_ONCE = "running" /\ CountLines("Initializing zpoline-rs") = 1
    /\ CountLines("Trampoline setup successful")
          + CountLines("ERROR: Failed to setup trampoline") <= 1
    /\ CountLines("Code rewriting completed")
          + CountLines("ERROR: Failed to rewrite syscalls") <= 1
    /\ \A t \in Invocations :
          invocation[t] = "returned" =>
              /\ INIT_ONCE = "complete"
              /\ HasLine("Initialization complete")
              /\ boot.pc = "done"
              /\ InBody = {}

\* one invocation waits while another is in the middle of the rewriting
C19_Witness ==
    \E t, u \in Invocations :
        /\ invocation[t] = "waiting"
        /\ invocation[u] = "rewrite"
        /\ boot.pc = "loop"
        /\ boot.idx = 3

\* the regions rewrite_syscalls hands to the patching: executable, not the
\* kernel's, not excluded
Attempted ==
    {i \in 1..Len(regions) :
        /\ is_executable(regions[i])
        /\ ~IsKernelRegion(regions[i])
        /\ ~is_excluded(config, regions[i])}

\* the loop is over and each of these regions ended in an error
EveryRegionFailed ==
    /\ boot.pc = "done"
    /\ Attempted # {}
    /\ boot.warnings = Cardinality(Attempted)

\* C20: when rewriting failed for every region it was attempted on, bootstrap
\* is fatal: it does not report success and complete, the process exits.
C20_AllFailedIsFatal ==
    EveryRegionFailed =>
        /\ INIT_ONCE # "complete"
        /\ ~HasLine("Initialization complete")

----------------------------------------------------------------------------
(* Claims about the rewriter's statistics and page protection *)

\* C21: a rewrite_region call that returns an error has incremented none of
\* regions_rewritten, syscalls_replaced, sysenters_replaced, whichever step
\* failed.
C21_ErrorLeavesCounters ==
    [][ (IsRewriteCall /\ ~last'.ret.ok) =>
            /\ stats'.regions_rewritten = stats.regions_rewritten
            /\ stats'.syscalls_replaced = stats.syscalls_replaced
            /\ stats'.sysenters_replaced = stats.sysenters_replaced ]_vars

\* the five counters, none smaller after the step
CountersGrow ==
    /\ stats'.regions_scanned >= stats.regions_scanned
    /\ stats'.regions_rewritten >= stats.regions_rewritten
    /\ stats'.syscalls_replaced >= stats.syscalls_replaced
    /\ stats'.sysenters_replaced >= stats.sysenters_replaced
    /\ stats'.regions_skipped >= stats.regions_skipped

\* the statement as written: no operation on a Rewriter lowers a counter
C22_CountersMonotone == [][CountersGrow]_vars

\* C22: no rewrite_region call lowers a counter of the statistics, whatever
\* its outcome; reset_stats puts all five back to zero.
C22_CountersMonotoneByCalls ==
    [][ /\ stats' # RewriteStats_default => CountersGrow
        /\ stats'.regions_scanned < stats.regions_scanned =>
              stats' = RewriteStats_default /\ mem' = mem /\ prot' = prot ]_vars

\* the counters after a reset and one more call on the region that a
\* successful call patched before
C22_Witness ==
    /\ stats.regions_scanned = 1
    /\ stats.regions_rewritten = 0
    /\ stats.syscalls_replaced = 0
    /\ last.ret = Ok(0)
    /\ last.sites = <<>>
    /\ SiteBytes(1, 0) = <<CALL_FF, CALL_D0>>
    /\ ~regions[1].writable
    /\ prot[1] = RX

----------------------------------------------------------------------------
(* Claims about the scanner, checked under SpecRewrite *)

\* what an instruction of the model's regions is to the scanner
SiteKind(ins) ==
    IF ins \in { <<ESCAPE_0F, SYSCALL_05>>, <<72, ESCAPE_0F, SYSCALL_05>> } THEN "Syscall"
    ELSE IF ins = <<ESCAPE_0F, SYSENTER_34>> THEN "Sysenter"
    ELSE "none"

\* the sites of a page made of the instructions ss: each syscall or sysenter
\* instruction of ss, at the offset of its first byte, in the order of ss
SitesOf(ss) ==
    LET idx == SelectSeq([j \in 1..Len(ss) |-> j], LAMBDA j : SiteKind(ss[j]) # "none")
    IN [k \in 1..Len(idx) |->
           [offset |-> OffsetOf(ss, idx[k]), type |-> SiteKind(ss[idx[k]])]]

\* for every page of the model, the sites of the instruction sequences it
\* is made of
SitesByPage ==
    [c \in Contents(MaxInstrs) |->
        { SitesOf(ss) : ss \in { q \in InstrSeqs(MaxInstrs) : Padded(Concat(q)) = c } }]

\* base addresses other than the region's own that a buffer is scanned at
ScanBases == {0, 1, PageSize + 3}

\* a rewrite_region call that reaches find_syscalls
ScanRan ==
    /\ IsRewriteCall
    /\ is_executable(regions[last'.idx])
    /\ ~is_excluded(config, regions[last'.idx])

\* C23: for every base address and every buffer, the scanner reports exactly
\* the instructions that are syscall or sysenter when the buffer is decoded
\* linearly, each at the offset of its first byte relative to the buffer's
\* start, with its kind, in increasing order, whatever the base address; a
\* 0F 05 pair inside an immediate is not reported.
C23_ScannerExact ==
    [][ ScanRan =>
          LET code == mem[last'.idx] IN
          /\ \A k \in 1..(Len(last'.sites) - 1) :
                last'.sites[k].offset < last'.sites[k + 1].offset
          /\ \A base \in ScanBases : find_syscalls(base, code) = last'.sites
          /\ code \in DOMAIN SitesByPage =>
                \A sites \in SitesByPage[code] : last'.sites = sites ]_vars

\* mov eax, 0x50f then syscall, scanned in dry-run mode: one site, at offset 5
C23_Witness ==
    /\ config.dry_run
    /\ mem[1] = Padded(<<184, 15, 5, 0, 0, 15, 5>>)
    /\ last.idx = 1
    /\ last.sites = << [offset |-> 5, type |-> "Syscall"] >>
    /\ last.ret = Ok(1)

----------------------------------------------------------------------------
(* Claims about the process map parser, checked under SpecMaps *)

\* the region a well-formed line stands for
RegionOfLine(l) ==
    [some |-> TRUE,
     start |-> l.range[1],
     end |-> l.range[2],
     readable |-> l.perms[1] = "r",
     writable |-> l.perms[2] = "w",
     executable |-> l.perms[3] = "x",
     private |-> l.perms[4] = "p",
     offset |-> l.offset,
     device |-> MapDevice,
     inode |-> l.inode,
     pathname |-> IF l.path = <<>> THEN NoText
                  ELSE [some |-> TRUE, text |-> join(l.path, " ")]]

MalformedTexts == {l.text : l \in MalformedLines}
WellFormedTexts == {l.text : l \in WellFormedLines}

\* C25: parsing the process map never fails because of a line's content:
\* every malformed line is dropped, every well-formed line yields one region,
\* the regions come out in the order of their lines, and only a failure to
\* open or to read the table is an error.
C25_LenientParser ==
    /\ maps.pc = "failed" => maps.cause \in {"open", "read"}
    /\ \A k \in 1..Len(maps.returned) :
          /\ maps.table[k] \in MalformedTexts => ~maps.returned[k].some
          /\ maps.table[k] \in WellFormedTexts => maps.returned[k].some
    /\ maps.regions = SelectSeq(maps.returned, LAMBDA r : r.some)

\* C26: every region the parser produces has start < end, both page-aligned,
\* whatever the table, so that size() = end - start is positive.
C26_RegionWellFormed ==
    \A k \in 1..Len(maps.regions) :
        LET r == maps.regions[k] IN
        /\ r.start < r.end
        /\ r.start % PageSize = 0
        /\ r.end % PageSize = 0
        /\ region_size(r) = r.end - r.start
        /\ region_size(r) > 0

----------------------------------------------------------------------------
(* Claims about the exclude set, checked under SpecRewrite *)

\* the region's pathname begins, component by component, with an excluded path
BeginsWithExcluded(cfg, region) ==
    /\ region.pathname.some
    /\ \E e \in cfg.exclude_paths :
          /\ Len(e) <= Len(region.pathname.path)
          /\ \A j \in 1..Len(e) : region.pathname.path[j] = e[j]

\* the half-open ranges [s1, e1) and [s2, e2) have an address in common
SharesAddress(s1, e1, s2, e2) ==
    \E a \in s1..(e1 - 1) : s2 <= a /\ a < e2

\* every call on the executable region was skipped, or none was
SkippedWhen(matches) ==
    is_executable(regions[1]) =>
        stats.regions_skipped = IF matches THEN stats.regions_scanned ELSE 0

----------------------------------------------------------------------------
(* Claims about trait dispatch, checked under SpecDispatch *)

\* what the kernel reads of an argument register: the low half for a 32-bit
\* parameter, the whole register otherwise
KernelReads(type, w) == IF type \in {"int", "uint"} THEN w[2] ELSE w

\* C28: with a SyscallHooks implementation that overrides no method,
\* dispatch is a pass-through: it issues exactly one raw syscall with the
\* same number and the argument registers that syscall uses, and returns the
\* value raw_syscall returns; a number outside the table goes to raw_syscall
\* with the record as it is.
C28_PassThrough ==
    (disp.guard = "hooks" /\ disp.pc \in {"raw", "done", "exited"}) =>
        LET nr == disp.regs.rax
            sent == disp.issued[1]
        IN /\ Len(disp.issued) = 1
           /\ sent.rax = nr
           /\ IF nr \in DOMAIN HookTable
              THEN \A j \in 1..Len(HookTable[nr].args) :
                      KernelReads(HookTable[nr].args[j], sent[ArgRegs[j]])
                          = KernelReads(HookTable[nr].args[j], disp.regs[ArgRegs[j]])
              ELSE sent = disp.regs
           /\ disp.pc = "done" => disp.ret = disp.kernel

----------------------------------------------------------------------------
(* Claims about the page protection around a rewrite, checked under
   SpecRewrite *)

\* a rewrite_region call on region i was made by the step
Called(i) ==
    /\ stats'.regions_scanned = stats.regions_scanned + 1
    /\ last'.idx = i

\* the call of the step returned Ok with dry-run off and found a site
RewroteRegion(i) ==
    /\ Called(i)
    /\ ~config.dry_run
    /\ last'.ret.ok
    /\ last'.sites # <<>>

\* the protection the region's record states
RecordProt(region) ==
    (IF region.readable THEN {"r"} ELSE {})
        \cup (IF region.writable THEN {"w"} ELSE {})
        \cup (IF region.executable THEN {"x"} ELSE {})

Effects == last'.events

\* effect k is a store into the region, made while the pages are writable:
\* the first effect is a granted mprotect that adds write, and nothing but
\* stores lie between it and effect k
StoreInWindow(k) ==
    /\ Effects[1].op = "mprotect"
    /\ Effects[1].ok
    /\ "w" \in Effects[1].prot
    /\ \A m \in 2..k : Effects[m].op = "write"

\* the byte at position b of region i is covered by a store of the call
Stored(i, b) ==
    \E k \in 1..Len(Effects) :
        /\ Effects[k].op = "write"
        /\ Effects[k].addr <= regions[i].start + b - 1
        /\ regions[i].start + b - 1 < Effects[k].addr + Effects[k].len

\* C30: rewrite_region overwrites no byte unless the mprotect that adds write
\* permission succeeded earlier in the same call and the restoring mprotect
\* has not been issued; when the mprotect that adds write fails, the call
\* returns ProtectError and every byte, the protection and every counter but
\* regions_scanned are as before.
C30_WriteWindow ==
    [][ \A i \in 1..Len(regions) :
          Called(i) =>
            /\ \A k \in 1..Len(Effects) : Effects[k].op = "write" => StoreInWindow(k)
            /\ \A b \in 1..Len(mem[i]) : mem'[i][b] # mem[i][b] => Stored(i, b)
            /\ (Effects # <<>> /\ ~Effects[1].ok) =>
                  /\ last'.ret = Err("ProtectError")
                  /\ mem' = mem
                  /\ prot' = prot
                  /\ stats' = [stats EXCEPT !.regions_scanned = @ + 1] ]_vars

\* the kernel refused to add write permission: the call returned
\* ProtectError after that one mprotect and the sysenter it found is intact
C30_Witness ==
    /\ last.idx = 1
    /\ last.ret = Err("ProtectError")
    /\ Len(last.events) = 1
    /\ last.events[1].op = "mprotect"
    /\ ~last.events[1].ok
    /\ last.sites # <<>>
    /\ SiteBytes(1, 0) = <<ESCAPE_0F, SYSENTER_34>>
    /\ prot[1] = {"r", "x"}
    /\ stats = [RewriteStats_default EXCEPT !.regions_scanned = 1]

----------------------------------------------------------------------------
(* Claims about dry-run mode, checked under SpecRewrite *)

\* the number of sites of one kind among the sites a call found
CountKind(sites, kind) == Len(SelectSeq(sites, LAMBDA s : s.type = kind))

\* C31: in dry-run mode a rewrite_region call changes no byte and issues no
\* protection change; it returns the number of sites found, adds the syscall
\* sites found to syscalls_replaced and the sysenter sites found to
\* sysenters_replaced, and leaves regions_rewritten as it was.
C31_DryRunCounts ==
    [][ \A i \in 1..Len(regions) :
          (Called(i) /\ config.dry_run /\ last'.sites # <<>>) =>
            /\ mem' = mem
            /\ prot' = prot
            /\ last'.events = <<>>
            /\ last'.ret = Ok(Len(last'.sites))
            /\ stats'.syscalls_replaced
                 = stats.syscalls_replaced + CountKind(last'.sites, "Syscall")
            /\ stats'.sysenters_replaced
                 = stats.sysenters_replaced + CountKind(last'.sites, "Sysenter")
            /\ stats'.regions_rewritten = stats.regions_rewritten ]_vars

----------------------------------------------------------------------------
(* Claims about the bootstrap loop, checked under SpecBoot *)

\* region i is one rewrite_syscalls hands to rewrite_region
HandedOver(i) == is_executable(regions[i]) /\ ~IsKernelRegion(regions[i])

\* while the loop runs, the regions before the current one that are
\* executable and not the kernel's have each been handed to rewrite_region,
\* whatever the earlier calls returned, and the loop ends only past the last
\* region
LoopCoversMap ==
    /\ boot.pc \in {"start", "loop", "done"}
    /\ boot.pc \in {"loop", "done"} =>
          /\ boot.idx <= Len(regions) + 1
          /\ stats.regions_scanned = Cardinality({i \in 1..(boot.idx - 1) : HandedOver(i)})
          /\ boot.warnings <= stats.regions_scanned
    /\ boot.pc = "done" => boot.idx = Len(regions) + 1

\* a turn of the loop takes the next region of the map and calls
\* rewrite_region on it exactly when it is executable and not the kernel's
LoopTurn ==
    (boot.pc = "loop" /\ boot'.pc = "loop" /\ boot' # boot) =>
        /\ boot'.idx = boot.idx + 1
        /\ IF HandedOver(boot.idx) THEN Called(boot.idx)
           ELSE stats' = stats /\ mem' = mem /\ prot' = prot /\ last' = last

\* C32: during bootstrap rewrite_region is attempted on every executable
\* region of the process map that is not a [vdso]/[vsyscall] region, in map
\* order, also after an earlier region returned an error; an error in one
\* region neither keeps a later region from being rewritten nor makes
\* rewrite_syscalls fail.
C32_ErrorsTolerated == []LoopCoversMap /\ [][LoopTurn]_vars

\* rewrite_syscalls returned after the application's text failed at its
\* first mprotect and the library's text, later in the map, was rewritten
C32_Witness ==
    /\ boot.pc = "done"
    /\ boot.warnings = 1
    /\ SiteBytes(2, 0) = <<ESCAPE_0F, SYSCALL_05>>
    /\ prot[2] = {"r", "x"}
    /\ SiteBytes(5, 0) = <<CALL_FF, CALL_D0>>
    /\ stats.regions_rewritten = 1
    /\ stats.sysenters_replaced = 1
    /\ stats.regions_scanned = 4

\* the byte at offset k of region i lies in the first 64 KiB, or the region is
\* the kernel's [vdso] or [vsyscall]
KeptFromRewriting(i, k) ==
    \/ regions[i].start + (k - 1) < TrampolineSlack
    \/ /\ regions[i].pathname.some
       /\ regions[i].pathname.path \in { <<"[vdso]">>, <<"[vsyscall]">> }

\* every non-empty segment of ZPOLINE_EXCLUDE is in the exclude set, and the
\* empty segment is not
SegmentsExcluded ==
    boot.pc \in {"loop", "done"} =>
        /\ layout.env.some =>
              \A j \in 1..Len(layout.env.segments) :
                  layout.env.segments[j] # <<>> =>
                      layout.env.segments[j] \in config.exclude_paths
        /\ <<>> \notin config.exclude_paths

\* start addresses of regions that have a byte below 64 KiB: the first page,
\* the second, and a region that straddles the 64 KiB line
LowStarts == {0, PageSize, TrampolineSlack - 1}

\* with the configuration rewrite_syscalls built, a rewrite_region call on an
\* executable region that begins below 64 KiB and holds a syscall instruction
\* leaves the region's bytes as they are
LowRegionsKept ==
    boot.pc \in {"loop", "done"} =>
        \A s \in LowStarts, w \in BOOLEAN :
            LET region == MemoryRegion(s, s + PageSize, w, TRUE, NoPath)
                code == Padded(<<ESCAPE_0F, SYSCALL_05>>)
            IN rewrite_region(config, stats, region, code, RX, TRUE, TRUE).code = code

\* C34: no step of rewrite_syscalls changes a byte of the first 64 KiB or of a
\* region named [vdso] or [vsyscall], whatever region of the map the byte
\* belongs to, and once the configuration is built every non-empty segment of
\* ZPOLINE_EXCLUDE is one of its excluded paths.
C34_BootstrapExclusions ==
    /\ []SegmentsExcluded
    /\ []LowRegionsKept
    /\ [][ \A i \in 1..Len(regions) : \A k \in 1..Len(mem[i]) :
             KeptFromRewriting(i, k) => mem'[i][k] = mem[i][k] ]_vars

\* the loop is over with two prefixes taken from ZPOLINE_EXCLUDE, the
\* application's text rewritten, and the syscall instructions at address 0, in
\* the vdso and in the excluded library still in place
C34_Witness ==
    /\ boot.pc = "done"
    /\ layout.env.some
    /\ {LibcPath, LibmPath} \subseteq config.exclude_paths
    /\ SiteBytes(2, 0) = <<CALL_FF, CALL_D0>>
    /\ SiteBytes(1, 0) = <<ESCAPE_0F, SYSCALL_05>>
    /\ SiteBytes(4, 0) = <<ESCAPE_0F, SYSCALL_05>>
    /\ SiteBytes(5, 0) = <<ESCAPE_0F, 52>>

----------------------------------------------------------------------------
(* Claims about the bootstrap state, checked under SpecInit and SpecInitFair *)

\* the state of bootstrap: FAILED once the process has exited, SERVING once
\* the closure has returned, REWRITTEN once rewrite_syscalls has returned Ok,
\* TRAMPOLINE_READY once setup_trampoline has returned Ok, UNINIT before
BootstrapState ==
    IF exit_status.exited THEN "FAILED"
    ELSE IF INIT_ONCE = "complete" THEN "SERVING"
    ELSE IF boot.pc = "done" THEN "REWRITTEN"
    ELSE IF HasLine("Trampoline setup successful") THEN "TRAMPOLINE_READY"
    ELSE "UNINIT"

\* the state bootstrap is in after the step
BootstrapStateNext ==
    IF exit_status'.exited THEN "FAILED"
    ELSE IF INIT_ONCE' = "complete" THEN "SERVING"
    ELSE IF boot'.pc = "done" THEN "REWRITTEN"
    ELSE IF \E k \in 1..Len(stderr') : stderr'[k].text = "Trampoline setup successful"
    THEN "TRAMPOLINE_READY"
    ELSE "UNINIT"

ForwardEdges ==
    { <<"UNINIT", "TRAMPOLINE_READY">>, <<"TRAMPOLINE_READY", "REWRITTEN">>,
      <<"REWRITTEN", "SERVING">> }

\* C33: the bootstrap state only moves along UNINIT -> TRAMPOLINE_READY ->
\* REWRITTEN -> SERVING or UNINIT -> FAILED; FAILED is entered only from
\* UNINIT.
C33_StateMachine ==
    [][ BootstrapStateNext # BootstrapState =>
          <<BootstrapState, BootstrapStateNext>>
              \in ForwardEdges \cup { <<"UNINIT", "FAILED">> } ]_vars

\* C33 as the code moves: FAILED is entered from UNINIT, when setup_trampoline
\* fails, and from TRAMPOLINE_READY, when rewrite_syscalls returns an error;
\* never from REWRITTEN or SERVING. SERVING and FAILED are final, and the
\* bootstrap does not stay in TRAMPOLINE_READY or REWRITTEN: by the moves
\* allowed, it goes from TRAMPOLINE_READY to REWRITTEN and then to SERVING,
\* or from TRAMPOLINE_READY to FAILED.
C33_StateMachineWithRewriteFailure ==
    /\ [][ BootstrapStateNext # BootstrapState =>
             <<BootstrapState, BootstrapStateNext>>
                 \in ForwardEdges \cup { <<"UNINIT", "FAILED">>,
                                         <<"TRAMPOLINE_READY", "FAILED">> } ]_vars
    /\ (BootstrapState \in {"TRAMPOLINE_READY", "REWRITTEN"})
           ~> (BootstrapState \in {"SERVING", "FAILED"})

\* the process exited because rewrite_syscalls failed, with the trampoline
\* built and no region scanned
C33_Witness ==
    /\ BootstrapState = "FAILED"
    /\ HasLine("Trampoline setup successful")
    /\ HasLine("ERROR: Failed to rewrite syscalls")
    /\ exit_status.code = 1
    /\ TrampolineBuilt
    /\ stats.regions_scanned = 0

----------------------------------------------------------------------------
(* Claims about the lock of the trait object, checked under SpecTraitFair *)

\* thread t is in trait_based_hook, at HOOK_TRAIT_OBJECT.lock()
LockRequested(t) == IsTop(t, "trait_based_hook", "start")

\* no thread asks for the lock while it holds it
HolderNeverRequests ==
    \A t \in Threads : LockRequested(t) => HOOK_TRAIT_OBJECT.holder # t

\* a thread that is not inside trait_based_hook does not hold the lock
ReleasedAtReturn ==
    \A t \in Threads :
        (\A i \in 1..Depth(t) : stack[t][i].fn # "trait_based_hook")
            => HOOK_TRAIT_OBJECT.holder # t

\* C37: the lock is released at the end of every trait_based_hook invocation
\* and never requested by its holder, and a thread that waits for the lock
\* acquires it (as long as the process lives).
C37_LockAlwaysAcquired ==
    /\ []HolderNeverRequests
    /\ []ReleasedAtReturn
    /\ \A t \in Threads :
          LockRequested(t) ~> (HOOK_TRAIT_OBJECT.holder = t \/ ~Alive)

----------------------------------------------------------------------------
(* Claims about the hook library, checked under SpecInitHookLibrary *)

\* what load_hook_library returns for the library the environment designates
LoadResult == load_hook_library(get_hook_library_path(hook_library), hook_library)

\* C38: once bootstrap is complete, the hook slot holds the pointer the
\* designated library's zpoline_hook_init returned when load_hook_library
\* succeeds on it, and holds what it held before when load_hook_library fails
\* (no library specified, open failure, symbol missing, null returned).
C38_HookLibraryPublished ==
    INIT_ONCE = "complete" =>
        HOOK_FUNCTION = (IF LoadResult.ok THEN LoadResult.hook_fn ELSE "default_hook")

----------------------------------------------------------------------------
(* Claims about the pathname of a map line, checked under SpecMaps *)

\* the lines of the model that have a pathname, each with the pathname as it
\* appears in the line, after the blanks that pad the inode column
PathnameLines ==
    { [text |-> l.text, pathname |-> join(l.path, " ")] :
        l \in {w \in WellFormedLines : w.path # <<>>} }
    \cup { [text |-> SpacedPathLine, pathname |-> SpacedPath] }

\* C39: the pathname of a parsed region is the text that follows the first
\* five fields of its line, character for character, blanks included.
C39_PathnameVerbatim ==
    \A k \in 1..Len(maps.returned) :
        \A l \in PathnameLines :
            l.text = maps.table[k] =>
                /\ maps.returned[k].some
                /\ maps.returned[k].pathname = [some |-> TRUE, text |-> l.pathname]

----------------------------------------------------------------------------
(* Scanning buffers that end inside an instruction: find_syscalls *)

\* bytes that are no instruction in 64-bit mode: push es, pop es
Undecodable == {6, 7}

\* the beginnings of the model's instructions that stop short of their end
ProperPrefixes(s) == { SubSeq(s, 1, k) : k \in 1..(Len(s) - 1) }
PartialInstructions == UNION { ProperPrefixes(s) : s \in Instructions }

\* runs of at most MaxGarbage undecodable bytes
GarbageRuns == UNION { [1..k -> Undecodable] : k \in 0..MaxGarbage }

\* what a buffer may end in: undecodable bytes, a cut-short instruction, or both
Tails == { g \o p : g \in GarbageRuns, p \in PartialInstructions \cup {<<>>} } \ {<<>>}

\* a page that ends with `bytes`, with NOPs before them
EndsWith(bytes) == [i \in 1..(PageSize - Len(bytes)) |-> 144] \o bytes

\* every page of at most one instruction followed by a tail at the page's end
ScanPages ==
    { EndsWith(b) : b \in { c \in { Concat(ss) \o t : ss \in InstrSeqs(1), t \in Tails } :
                              Len(c) <= PageSize } }

\* one executable region of one page that ends in a tail, and a Rewriter
\* that rewrites or only scans
InitScan ==
    /\ \E c \in ScanPages, w \in BOOLEAN :
        /\ regions = << MemoryRegion(RegionBase, RegionBase + PageSize, w, TRUE, NoPath) >>
        /\ mem = << c >>
        /\ prot = << (IF w THEN {"w"} ELSE {}) \cup {"r", "x"} >>
    /\ \E d \in BOOLEAN : config = dry_run(RewriteConfig_new, d)
    /\ stats = RewriteStats_default
    /\ last = NoCall
    /\ layout = NoLayout
    /\ boot = NoBoot

InitSpecScan == InitScan /\ InitHook /\ StubIdle /\ LoaderIdle /\ MapsIdle /\ DispIdle

SpecScan == InitSpecScan /\ [][NextRewrite]_vars

\* the decode steps of find_syscalls from offset pos: where each starts, its
\* length and its mnemonic
RECURSIVE ScanSteps(_, _)
ScanSteps(code, pos) ==
    IF pos >= Len(code) THEN <<>>
    ELSE LET instr == decode(code, 0, pos)
         IN <<[pos |-> pos, len |-> instr.len, mnemonic |-> instr.mnemonic]>>
            \o (IF instr.len >= 1 THEN ScanSteps(code, pos + instr.len) ELSE <<>>)

\* where the trailing garbage of a buffer starts: the first of the INVALID
\* steps the scan ends with (the buffer's length when it ends in none)
GarbageStart(code) ==
    LET steps == ScanSteps(code, 0)
        tail == { k \in 1..Len(steps) :
                    \A j \in k..Len(steps) : steps[j].mnemonic = "INVALID" }
    IN IF tail = {} THEN Len(code)
       ELSE steps[CHOOSE k \in tail : \A j \in tail : k <= j].pos

\* every decode step of the scan takes at least one byte and stays in the buffer
StepsAdvance(code) ==
    LET steps == ScanSteps(code, 0) IN
    /\ \A k \in 1..Len(steps) :
        /\ steps[k].len >= 1
        /\ steps[k].pos + steps[k].len <= Len(code)
    /\ Len(steps) <= Len(code)
    /\ Len(steps) > 0 => steps[Len(steps)].pos + steps[Len(steps)].len = Len(code)

\* the sites reported for a buffer are whole instructions before its garbage
SitesBeforeGarbage(code, sites) ==
    \A k \in 1..Len(sites) :
        LET instr == decode(code, 0, sites[k].offset) IN
        /\ instr.mnemonic \in {"Syscall", "Sysenter"}
        /\ sites[k].offset + instr.len <= GarbageStart(code)

\* C40: the scan of a buffer that ends in a cut-short instruction or in
\* undecodable bytes ends: every decode step takes at least one byte and stays
\* inside the buffer, the sites reported are whole instructions before the
\* trailing garbage, and the call fails only when an mprotect does (a dry
\* run, which makes none, returns Ok with the number of sites).
C40_ScanEndsOnTruncatedBuffer ==
    /\ [](StepsAdvance(mem[1]))
    /\ [][/\ SitesBeforeGarbage(mem[1], last'.sites)
          /\ ~last'.ret.ok =>
                /\ last'.ret.err = "ProtectError"
                /\ \E e \in 1..Len(last'.events) : ~last'.events[e].ok
          /\ config.dry_run => last'.ret = Ok(Len(last'.sites))]_vars

\* a page that ends in the first three bytes of mov eax, 0x50f after a
\* syscall was scanned: the syscall is the one site reported
C40_Witness ==
    /\ last.idx = 1
    /\ config.dry_run
    /\ SubSeq(mem[1], PageSize - 4, PageSize) = <<15, 5, 184, 15, 5>>
    /\ GarbageStart(mem[1]) = PageSize - 3
    /\ last.sites = <<[offset |-> PageSize - 5, type |-> "Syscall"]>>
    /\ last.ret = Ok(1)

====
